---- MODULE Spec2Model ----
(***************************************************************************)
(* Doubles round scheduler of tennis-matches.                              *)
(*                                                                         *)
(* Two variants of the page exist in the repository:                       *)
(*   "soft"    src/app/page.tsx      repeated four-player matchups are a   *)
(*                                   heavy score penalty                   *)
(*   "hardban" src/unnamed/part_000  candidates repeating a four-player    *)
(*                                   matchup are discarded before scoring  *)
(* The variant is a state variable fixed by Init; every operator that      *)
(* differs between the two files takes it as its first parameter.          *)
(*                                                                         *)
(* handleGenerate runs synchronously in the browser; it is modelled as a   *)
(* process whose steps are the validation, each attempt of the best-of-N   *)
(* loop, the commit of a round and the return of generateRounds.           *)
(***************************************************************************)
EXTENDS Integers, Sequences, FiniteSets, TLC

VARIABLES
    variant,            \* which source file is running
    participants,       \* Page state: string[] (may hold duplicates)
    playerSettings,     \* Page state: name -> [level, gender] (partial)
    fixedPairs,         \* Page state: Team[]
    forbiddenPairs,     \* Page state: Team[]
    courtCount,         \* Page state
    matchCount,         \* Page state
    priorityMode,       \* Page state
    rounds,             \* Page state: <<>> = null, <<schedule>> = RoundView[]
    error,              \* Page state: NoError or an error kind
    pc,                 \* position of handleGenerate / generateRounds
    players,            \* handleGenerate: Player[] passed to generateRounds
    effectiveFixed,     \* handleGenerate: filtered fixed pairs
    effectiveForbidden, \* handleGenerate: filtered forbidden pairs
    result,             \* generateRounds: local rounds array
    roundIndex,         \* generateRounds: outer loop counter
    attempt,            \* generateRounds: inner loop counter
    best,               \* generateRounds: <<>> while bestCourts is null, else
                        \*   <<[score, courts, resting, teams]>>
    stopped,            \* generateRounds: inner loop left by break
    gamesCount,         \* generateRounds: name -> games played
    lastPlayedRound,    \* generateRounds: name -> last round played, -1 never
    prevPairsSet,       \* generateRounds: <<>> = null, <<S>> = Set of pair keys
    pastMatchupLastRound, \* generateRounds: Map matchup key -> round
    pastMatchupCount,   \* generateRounds: Map matchup key -> count
    pairingCalls,       \* number of findRoundPairing invocations so far
    generateCalls,      \* number of generateRounds invocations so far
    scored              \* history: <<>> when not recorded, else <<list>> of the
                        \*   candidates scored so far in the current round

vars == <<variant, participants, playerSettings, fixedPairs, forbiddenPairs,
          courtCount, matchCount, priorityMode, rounds, error, pc, players,
          effectiveFixed, effectiveForbidden, result, roundIndex, attempt,
          best, stopped, gamesCount, lastPlayedRound, prevPairsSet,
          pastMatchupLastRound, pastMatchupCount, pairingCalls,
          generateCalls, scored>>

----------------------------------------------------------------------------
(* Bounds of the model *)

\* largest matchCount drawn by Init
MaxRounds == 2
\* attempts per round explored by the model (the source tries 60)
MaxAttempts == 2
\* largest courtCount drawn by Init
MaxCourts == 2
\* largest roster of the court-assignment specification
MaxCourtPlayers == 9

----------------------------------------------------------------------------
(* Names.  JavaScript's default sort compares strings by code units; the   *)
(* model's names are listed here in that order.                            *)

NameOrder == <<"A", "B", "C", "D", "E", "F", "G", "H", "I", "J", "K", "Z">>

Rank(n) == CHOOSE i \in 1..Len(NameOrder) : NameOrder[i] = n

Range(s) == {s[i] : i \in 1..Len(s)}

RECURSIVE InsertSorted(_, _)
\* insert name n into the rank-sorted sequence s
InsertSorted(s, n) ==
    IF s = <<>> THEN <<n>>
    ELSE IF Rank(n) < Rank(Head(s)) THEN <<n>> \o s
         ELSE <<Head(s)>> \o InsertSorted(Tail(s), n)

RECURSIVE SortNames(_)
\* Array.prototype.sort() of a list of names
SortNames(s) ==
    IF s = <<>> THEN <<>> ELSE InsertSorted(SortNames(Tail(s)), Head(s))

RECURSIVE Join(_)
\* names.join("::")
Join(s) ==
    IF s = <<>> THEN ""
    ELSE IF Len(s) = 1 THEN s[1]
         ELSE s[1] \o "::" \o Join(Tail(s))

pairKey(a, b) == Join(SortNames(<<a, b>>))

\* a key that keeps the order of the two teams and of their players
matchupKeyOfSplit(team1, team2) == Join(team1 \o team2)

matchupKey(team1, team2) == Join(SortNames(team1 \o team2))

RECURSIVE Unique(_)
\* Array.from(new Set(list)): first occurrences, in order
Unique(s) ==
    IF s = <<>> THEN <<>>
    ELSE LET init == Unique(SubSeq(s, 1, Len(s) - 1))
             last == s[Len(s)]
         IN IF last \in Range(init) THEN init ELSE Append(init, last)

Abs(x) == IF x < 0 THEN -x ELSE x

DEFAULT_SETTINGS == [level |-> 4, gender |-> "M"]

getSettings(settings, name) ==
    IF name \in DOMAIN settings THEN settings[name] ELSE DEFAULT_SETTINGS

\* map lookups with the source's ?? defaults
GamesOf(gc, name) == IF name \in DOMAIN gc THEN gc[name] ELSE 0
LastOf(lp, name) == IF name \in DOMAIN lp THEN lp[name] ELSE -1
LevelOf(levelMap, name) == IF name \in DOMAIN levelMap THEN levelMap[name] ELSE 4
CountOf(m, key) == IF key \in DOMAIN m THEN m[key] ELSE 0

Null == <<>>

Some(x) == <<x>>

----------------------------------------------------------------------------
(* findRoundPairing *)

\* a comparator that puts the largest level difference first
LevelCompareLargestFirst(v, p1, a, b, gc, lp) ==
    LET da == Abs(a.level - p1.level)
        db == Abs(b.level - p1.level)
    IN IF v = "soft"
       THEN IF GamesOf(gc, a.name) # GamesOf(gc, b.name)
            THEN GamesOf(gc, a.name) - GamesOf(gc, b.name)
            ELSE IF LastOf(lp, a.name) # LastOf(lp, b.name)
                 THEN LastOf(lp, a.name) - LastOf(lp, b.name)
                 ELSE db - da
       ELSE db - da

\* comparator of candidates.sort in priority mode "level"
LevelCompare(v, p1, a, b, gc, lp) ==
    LET da == Abs(a.level - p1.level)
        db == Abs(b.level - p1.level)
    IN IF v = "soft"
       THEN IF GamesOf(gc, a.name) # GamesOf(gc, b.name)
            THEN GamesOf(gc, a.name) - GamesOf(gc, b.name)
            ELSE IF LastOf(lp, a.name) # LastOf(lp, b.name)
                 THEN LastOf(lp, a.name) - LastOf(lp, b.name)
                 ELSE da - db
       ELSE da - db

genderScore(p, p1) == IF p.gender = p1.gender THEN 1 ELSE 0

\* a comparator that forgets the gender and compares the level difference only
GenderCompareLevelOnly(v, p1, a, b, gc, lp) ==
    LET da == Abs(a.level - p1.level)
        db == Abs(b.level - p1.level)
    IN IF v = "soft"
       THEN IF GamesOf(gc, a.name) # GamesOf(gc, b.name)
            THEN GamesOf(gc, a.name) - GamesOf(gc, b.name)
            ELSE IF LastOf(lp, a.name) # LastOf(lp, b.name)
                 THEN LastOf(lp, a.name) - LastOf(lp, b.name)
                 ELSE da - db
       ELSE da - db

\* comparator of candidates.sort in priority mode "gender"
GenderCompare(v, p1, a, b, gc, lp) ==
    LET gDiff == genderScore(a, p1) - genderScore(b, p1)
        da == Abs(a.level - p1.level)
        db == Abs(b.level - p1.level)
        tail == IF gDiff # 0 THEN gDiff ELSE da - db
    IN IF v = "soft"
       THEN IF GamesOf(gc, a.name) # GamesOf(gc, b.name)
            THEN GamesOf(gc, a.name) - GamesOf(gc, b.name)
            ELSE IF LastOf(lp, a.name) # LastOf(lp, b.name)
                 THEN LastOf(lp, a.name) - LastOf(lp, b.name)
                 ELSE tail
       ELSE tail

CandidateCompare(v, mode, p1, a, b, gc, lp) ==
    IF mode = "level" THEN LevelCompare(v, p1, a, b, gc, lp)
    ELSE GenderCompare(v, p1, a, b, gc, lp)

RECURSIVE StableInsert(_, _, _, _, _, _, _)
\* x goes before the first element that compares greater than x
StableInsert(sorted, x, v, mode, p1, gc, lp) ==
    IF sorted = <<>> THEN <<x>>
    ELSE IF CandidateCompare(v, mode, p1, x, Head(sorted), gc, lp) < 0
         THEN <<x>> \o sorted
         ELSE <<Head(sorted)>> \o StableInsert(Tail(sorted), x, v, mode, p1, gc, lp)

RECURSIVE StableSort(_, _, _, _, _, _)
\* Array.prototype.sort with a consistent comparator is a stable sort
StableSort(s, v, mode, p1, gc, lp) ==
    IF s = <<>> THEN <<>>
    ELSE StableInsert(StableSort(SubSeq(s, 1, Len(s) - 1), v, mode, p1, gc, lp),
                      s[Len(s)], v, mode, p1, gc, lp)

\* the partner candidates of p1, in the order in which they are tried
sortCandidates(v, mode, candidates, p1, gc, lp) ==
    IF mode = "none" THEN candidates
    ELSE StableSort(candidates, v, mode, p1, gc, lp)

RECURSIVE Remaining(_, _)
\* order.filter((p) => !used.has(p.name))
Remaining(order, used) ==
    IF order = <<>> THEN <<>>
    ELSE IF Head(order).name \in used THEN Remaining(Tail(order), used)
         ELSE <<Head(order)>> \o Remaining(Tail(order), used)

\* the constraints without the forbidden-pair test
PairRejectedNoForbidden(key, forbiddenSet, prevPairs) ==
    prevPairs # Null /\ key \in prevPairs[1]

\* the constraints without the previous-round test
PairRejectedNoPrev(key, forbiddenSet, prevPairs) ==
    key \in forbiddenSet

\* the hard constraints on a pair: forbidden, or a pair of the previous round
PairRejected(key, forbiddenSet, prevPairs) ==
    \/ key \in forbiddenSet
    \/ (prevPairs # Null /\ key \in prevPairs[1])

RECURSIVE backtrack(_, _, _, _, _, _, _, _, _)
RECURSIVE TryCandidates(_, _, _, _, _, _, _, _, _, _, _, _)

\* a loop that gives up when the search below its first admissible pair fails
TryCandidatesNoRetry(candidates, i, p1, v, order, used, teams, forbiddenSet, prevPairs, mode, gc, lp) ==
    IF i > Len(candidates)
    THEN [ok |-> FALSE, teams |-> teams, used |-> used, pops |-> 0]
    ELSE IF PairRejected(pairKey(p1.name, candidates[i].name), forbiddenSet, prevPairs)
         THEN TryCandidates(candidates, i + 1, p1, v, order, used, teams,
                            forbiddenSet, prevPairs, mode, gc, lp)
         ELSE [backtrack(v, order, used \cup {p1.name, candidates[i].name},
                         Append(teams, <<p1.name, candidates[i].name>>),
                         forbiddenSet, prevPairs, mode, gc, lp)
                  EXCEPT !.pops = 0]

\* the for loop over candidates, from position i on; pops counts the
\* executions of teams.pop(), the pairs that were tried and taken back
TryCandidates(candidates, i, p1, v, order, used, teams, forbiddenSet, prevPairs, mode, gc, lp) ==
    IF i > Len(candidates)
    THEN [ok |-> FALSE, teams |-> teams, used |-> used, pops |-> 0]
    ELSE LET p2 == candidates[i]
             key == pairKey(p1.name, p2.name)
         IN IF PairRejected(key, forbiddenSet, prevPairs)
            THEN TryCandidates(candidates, i + 1, p1, v, order, used, teams,
                               forbiddenSet, prevPairs, mode, gc, lp)
            ELSE LET r == backtrack(v, order, used \cup {p1.name, p2.name},
                                    Append(teams, <<p1.name, p2.name>>),
                                    forbiddenSet, prevPairs, mode, gc, lp)
                 IN IF r.ok THEN r
                    ELSE [TryCandidates(candidates, i + 1, p1, v, order, used,
                                        teams, forbiddenSet, prevPairs, mode,
                                        gc, lp)
                             EXCEPT !.pops = @ + r.pops + 1]

backtrack(v, order, used, teams, forbiddenSet, prevPairs, mode, gc, lp) ==
    LET remaining == Remaining(order, used)
    IN IF Len(remaining) <= 1
       THEN [ok |-> TRUE, teams |-> teams, used |-> used, pops |-> 0]
       ELSE LET p1 == remaining[1]
                candidates == sortCandidates(v, mode, Tail(remaining), p1, gc, lp)
            IN TryCandidates(candidates, 1, p1, v, order, used, teams,
                             forbiddenSet, prevPairs, mode, gc, lp)

\* Null, or Some([teams, resting])
findRoundPairing(v, order, prevPairs, forbidden, mode, gc, lp) ==
    LET forbiddenSet == {pairKey(forbidden[i][1], forbidden[i][2]) :
                            i \in 1..Len(forbidden)}
        r == backtrack(v, order, {}, <<>>, forbiddenSet, prevPairs, mode, gc, lp)
        rest == Remaining(order, r.used)
    IN IF ~r.ok THEN Null
       ELSE Some([teams |-> r.teams,
                  resting |-> [i \in 1..Len(rest) |-> rest[i].name]])

----------------------------------------------------------------------------
(* Court assignment inside generateRounds *)

RECURSIVE FillCourtsOneTeam(_, _, _, _, _)
\* a loop that puts the next team alone on a court, on both sides
FillCourtsOneTeam(courtNo, cc, teamsForCourt, courts, restingPlayers) ==
    IF courtNo <= cc /\ Len(teamsForCourt) >= 1
    THEN FillCourtsOneTeam(courtNo + 1, cc, Tail(teamsForCourt),
                    Append(courts, [court |-> courtNo,
                                    team1 |-> teamsForCourt[1],
                                    team2 |-> teamsForCourt[1]]),
                    restingPlayers)
    ELSE [courts |-> courts, teamsForCourt |-> teamsForCourt,
          restingPlayers |-> restingPlayers]

RECURSIVE FillCourts(_, _, _, _, _)
\* the while loop: two teams per court while courts and teams last
FillCourts(courtNo, cc, teamsForCourt, courts, restingPlayers) ==
    IF courtNo <= cc /\ Len(teamsForCourt) >= 2
    THEN FillCourts(courtNo + 1, cc, SubSeq(teamsForCourt, 3, Len(teamsForCourt)),
                    Append(courts, [court |-> courtNo,
                                    team1 |-> teamsForCourt[1],
                                    team2 |-> teamsForCourt[2]]),
                    restingPlayers)
    ELSE [courts |-> courts, teamsForCourt |-> teamsForCourt,
          restingPlayers |-> restingPlayers]

RECURSIVE Flatten(_)
Flatten(teams) ==
    IF teams = <<>> THEN <<>> ELSE Head(teams) \o Flatten(Tail(teams))

\* court assignment that rests the members of every team, not only of
\* the teams left without a court
assignCourtsRestAll(pairing, cc) ==
    LET f == FillCourts(1, cc, pairing.teams, <<>>, pairing.resting)
    IN [courts |-> f.courts,
        restingPlayers |-> f.restingPlayers \o Flatten(pairing.teams)]

\* court assignment that ignores courtCount
assignCourtsNoLimit(pairing, cc) ==
    LET f == FillCourts(1, Len(pairing.teams), pairing.teams, <<>>, pairing.resting)
    IN [courts |-> f.courts,
        restingPlayers |-> f.restingPlayers \o Flatten(f.teamsForCourt)]

\* courts and resting list built from one pairing
assignCourts(pairing, cc) ==
    LET f == FillCourts(1, cc, pairing.teams, <<>>, pairing.resting)
    IN [courts |-> f.courts,
        restingPlayers |-> f.restingPlayers \o Flatten(f.teamsForCourt)]

----------------------------------------------------------------------------
(* scoreCandidateRound *)

\* playedThisRound: names on the courts of a candidate
PlayedThisRound(courts) ==
    UNION {Range(courts[i].team1) \cup Range(courts[i].team2) :
              i \in 1..Len(courts)}

RECURSIVE SumSeq(_)
SumSeq(s) == IF s = <<>> THEN 0 ELSE Head(s) + SumSeq(Tail(s))

\* (1) +3 for every player on court who also played the round before
ConsecutiveTerm(played, r, lp) ==
    3 * Cardinality({n \in played : LastOf(lp, n) = r - 1})

\* team id of a player on court: <<court, "T1" | "T2">>; a later assignment
\* overwrites an earlier one
teamIdByPlayer(courts, name) ==
    LET i == CHOOSE j \in 1..Len(courts) :
                 /\ name \in Range(courts[j].team1) \cup Range(courts[j].team2)
                 /\ \A k \in (j + 1)..Len(courts) :
                        name \notin Range(courts[k].team1) \cup Range(courts[k].team2)
    IN <<courts[i].court, IF name \in Range(courts[i].team2) THEN "T2" ELSE "T1">>

\* contribution of one fixed pair that penalises a pair split over two courts
\* only
FixedPairScoreSameCourt(courts, played, pair) ==
    IF pair[1] \in played /\ pair[2] \in played
    THEN IF teamIdByPlayer(courts, pair[1]) = teamIdByPlayer(courts, pair[2])
         THEN -5
         ELSE IF teamIdByPlayer(courts, pair[1])[1] = teamIdByPlayer(courts, pair[2])[1]
              THEN 0 ELSE 20
    ELSE 0

\* contribution of one fixed pair
FixedPairScore(courts, played, pair) ==
    IF pair[1] \in played /\ pair[2] \in played
    THEN IF teamIdByPlayer(courts, pair[1]) = teamIdByPlayer(courts, pair[2])
         THEN -5 ELSE 20
    ELSE 0

\* (2) fixed pairs: -5 when teamed, +20 when both on court and split
FixedTerm(courts, played, fixed) ==
    SumSeq([i \in 1..Len(fixed) |-> FixedPairScore(courts, played, fixed[i])])

TeamLevel(team, levelMap) == LevelOf(levelMap, team[1]) + LevelOf(levelMap, team[2])

\* level imbalance of one court, with the threshold of page.tsx in both files
LevelPenaltyThresholdTwo(v, court, levelMap) ==
    LET diff == Abs(TeamLevel(court.team1, levelMap) - TeamLevel(court.team2, levelMap))
    IN IF diff > 2 THEN (diff - 2) * (diff - 2) * 10 ELSE 0

\* level imbalance of one court
LevelPenalty(v, court, levelMap) ==
    LET diff == Abs(TeamLevel(court.team1, levelMap) - TeamLevel(court.team2, levelMap))
    IN IF v = "soft"
       THEN IF diff > 2 THEN (diff - 2) * (diff - 2) * 10 ELSE 0
       ELSE IF diff >= 2 THEN (diff - 1) * (diff - 1) * 10 ELSE 0

LevelTerm(v, courts, levelMap) ==
    SumSeq([i \in 1..Len(courts) |-> LevelPenalty(v, courts[i], levelMap)])

HARD_BASE == 1000000

BASE_SAME4 == 100000

Max(a, b) == IF a >= b THEN a ELSE b

\* a penalty that fades with the gap and is gone after ten rounds
RepeatPenaltyOfFading(v, key, r, pmLast, pmCount) ==
    IF key \in DOMAIN pmLast
    THEN Max(0, 20000 - (r - pmLast[key]) * 2000)
         * ((CountOf(pmCount, key) + 1) * (CountOf(pmCount, key) + 1))
    ELSE 0

\* penalty of a court whose matchup key is key
RepeatPenaltyOf(v, key, r, pmLast, pmCount) ==
    IF v = "soft"
    THEN IF key \in DOMAIN pmLast
         THEN LET gap == r - pmLast[key]
                  basePenalty == IF gap <= 5 THEN HARD_BASE
                                 ELSE IF gap <= 10 THEN HARD_BASE \div 5
                                 ELSE HARD_BASE \div 20
              IN basePenalty * ((CountOf(pmCount, key) + 1) * (CountOf(pmCount, key) + 1))
         ELSE 0
    ELSE IF CountOf(pmCount, key) > 0
         THEN BASE_SAME4 * (CountOf(pmCount, key) * CountOf(pmCount, key))
              + (IF key \in DOMAIN pmLast
                 THEN Max(0, 20000 - (r - pmLast[key]) * 2000) ELSE 0)
         ELSE 0

\* repeated four-player matchup on one court
RepeatPenalty(v, court, r, pmLast, pmCount) ==
    CHOOSE x \in {RepeatPenaltyOf(v, key, r, pmLast, pmCount) :
                     key \in {matchupKey(court.team1, court.team2)}} : TRUE

RepeatTerm(v, courts, r, pmLast, pmCount) ==
    SumSeq([i \in 1..Len(courts) |-> RepeatPenalty(v, courts[i], r, pmLast, pmCount)])

\* tmpGames[n]: games of n if the candidate were committed
tmpGames(gc, played, n) == GamesOf(gc, n) + (IF n \in played THEN 1 ELSE 0)

SetMin(S) == CHOOSE x \in S : \A y \in S : x <= y

SetMax(S) == CHOOSE x \in S : \A y \in S : x >= y

\* spread of games played: weight 4 over the keys of tmpGames (page.tsx),
\* weight 25 over the keys of levelMap (part_000)
FairnessTerm(v, played, gc, levelMap) ==
    LET names == IF v = "soft" THEN DOMAIN gc \cup played ELSE DOMAIN levelMap
        weight == IF v = "soft" THEN 4 ELSE 25
    IN IF names = {} THEN 0
       ELSE CHOOSE x \in {(SetMax(games) - SetMin(games)) * weight :
                             games \in {{tmpGames(gc, played, n) : n \in names}}} :
                TRUE

\* block quota applied at every round instead of the last round of a block
BlockQuotaTermEveryRound(v, played, r, gc, levelMap) ==
    LET allNames == DOMAIN levelMap
        totalPlayers == Cardinality(allNames)
        playersThisRound == Cardinality(played)
    IN IF v = "soft" \/ allNames = {} THEN 0
       ELSE IF playersThisRound > 0 /\ totalPlayers % playersThisRound = 0
            THEN LET blockRounds == totalPlayers \div playersThisRound
                     requiredMin == (r \div blockRounds) + 1
                 IN 5000 * SumSeq([i \in 1..Len(NameOrder) |->
                             IF NameOrder[i] \in allNames
                             THEN Max(0, requiredMin - tmpGames(gc, played, NameOrder[i]))
                             ELSE 0])
            ELSE 0

\* block quota (part_000 only): at the last round of a block every player
\* should have played blockIndex + 1 games
BlockQuotaTerm(v, played, r, gc, levelMap) ==
    LET allNames == DOMAIN levelMap
        totalPlayers == Cardinality(allNames)
        playersThisRound == Cardinality(played)
    IN IF v = "soft" \/ allNames = {} THEN 0
       ELSE IF playersThisRound > 0 /\ totalPlayers % playersThisRound = 0
            THEN LET blockRounds == totalPlayers \div playersThisRound
                     requiredMin == (r \div blockRounds) + 1
                 IN IF blockRounds > 0 /\ r % blockRounds = blockRounds - 1
                    THEN 5000 * SumSeq([i \in 1..Len(NameOrder) |->
                             IF NameOrder[i] \in allNames
                             THEN Max(0, requiredMin - tmpGames(gc, played, NameOrder[i]))
                             ELSE 0])
                    ELSE 0
            ELSE 0

\* the sum of the terms for a candidate whose on-court players are played
ScoreTerms(v, courts, played, r, gc, lp, levelMap, pmLast, pmCount, fixed) ==
    ConsecutiveTerm(played, r, lp)
    + FixedTerm(courts, played, fixed)
    + RepeatTerm(v, courts, r, pmLast, pmCount)
    + LevelTerm(v, courts, levelMap)
    + FairnessTerm(v, played, gc, levelMap)
    + BlockQuotaTerm(v, played, r, gc, levelMap)

scoreCandidateRound(v, courts, r, gc, lp, levelMap, pmLast, pmCount, fixed) ==
    CHOOSE x \in {ScoreTerms(v, courts, played, r, gc, lp, levelMap, pmLast,
                             pmCount, fixed) :
                     played \in {PlayedThisRound(courts)}} : TRUE

----------------------------------------------------------------------------
(* generateRounds *)

\* a comparator that puts the players with the most games first
FairnessCompareMostGamesFirst(a, b, gc, lp) ==
    IF GamesOf(gc, a.name) # GamesOf(gc, b.name)
    THEN GamesOf(gc, b.name) - GamesOf(gc, a.name)
    ELSE LastOf(lp, a.name) - LastOf(lp, b.name)

\* the comparator of the trial order without its random last resort
FairnessCompare(a, b, gc, lp) ==
    IF GamesOf(gc, a.name) # GamesOf(gc, b.name)
    THEN GamesOf(gc, a.name) - GamesOf(gc, b.name)
    ELSE LastOf(lp, a.name) - LastOf(lp, b.name)

RECURSIVE Arrangements(_)
\* every sequence that lists the elements of the set S once
Arrangements(S) ==
    IF S = {} THEN {<<>>}
    ELSE UNION {{<<x>> \o a : a \in Arrangements(S \ {x})} : x \in S}

RECURSIVE ClassOrders(_, _, _, _)
\* the orders of the positions R of ps: the positions that compare lowest in
\* any relative order, then the orders of the other positions
ClassOrders(ps, R, gc, lp) ==
    IF R = {} THEN {<<>>}
    ELSE LET lowest == {i \in R : \A j \in R :
                           FairnessCompare(ps[i], ps[j], gc, lp) <= 0}
         IN {a \o b : a \in Arrangements(lowest),
                      b \in ClassOrders(ps, R \ lowest, gc, lp)}

\* [...players].sort(...): fewest games first, then longest rest first; players
\* equal in both are compared by Math.random() - 0.5, which can leave them in
\* any relative order
TrialOrders(ps, gc, lp) ==
    {[i \in 1..Len(ps) |-> ps[q[i]]] : q \in ClassOrders(ps, 1..Len(ps), gc, lp)}

levelMapOf(ps) == [n \in {ps[i].name : i \in 1..Len(ps)} |->
                      ps[CHOOSE i \in 1..Len(ps) :
                            /\ ps[i].name = n
                            /\ \A j \in (i + 1)..Len(ps) : ps[j].name # n].level]

\* a filter that never finds a repeated four-player set
invalidSameFourNever(courts, pmCount) == FALSE

\* part_000: a court of the candidate repeats a four-player set already played
invalidSameFour(courts, pmCount) ==
    \E i \in 1..Len(courts) :
        matchupKey(courts[i].team1, courts[i].team2) \in DOMAIN pmCount

\* every two players of a court taken as a pair of the round
currentPairsOfCourt(courts) ==
    UNION {{pairKey(a, b) : a, b \in Range(courts[i].team1) \cup Range(courts[i].team2)} :
              i \in 1..Len(courts)}

\* pair keys of the teams on the committed courts
currentPairs(courts) ==
    UNION {{pairKey(courts[i].team1[1], courts[i].team1[2]),
            pairKey(courts[i].team2[1], courts[i].team2[2])} :
              i \in 1..Len(courts)}

MatchupKeys(courts) ==
    {matchupKey(courts[i].team1, courts[i].team2) : i \in 1..Len(courts)}

\* a comparison that also replaces the kept candidate by an equal one
ImprovesOrEqual(score, b) == b = Null \/ score <= b[1].score

\* score < bestScore, bestScore being Infinity while nothing was kept
Improves(score, b) == b = Null \/ score < b[1].score

\* the attempt loop without its break on a score of 0
AttemptsOverNoBreak == attempt >= MaxAttempts

\* the inner loop is over: budget used up, or left by break
AttemptsOver == attempt >= MaxAttempts \/ stopped

pageVars == <<variant, participants, playerSettings, fixedPairs, forbiddenPairs,
              courtCount, matchCount, priorityMode>>

inputVars == <<players, effectiveFixed, effectiveForbidden>>

historyVars == <<gamesCount, lastPlayedRound, prevPairsSet,
                 pastMatchupLastRound, pastMatchupCount, result>>

\* the history of scored candidates with one more entry, when it is recorded
Recorded(history, entry) ==
    IF history = Null THEN Null ELSE Some(Append(history[1], entry))

\* one pass of the attempt loop whose sort leaves the players in one of orders
AttemptOn(orders) ==
    /\ pc = "attempt"
    /\ roundIndex < matchCount
    /\ ~AttemptsOver
    /\ \E levelMap \in {levelMapOf(players)} :
       \E sortedPlayers \in orders :
       \E pairing \in {findRoundPairing(variant, sortedPlayers, prevPairsSet,
                                        effectiveForbidden, priorityMode,
                                        gamesCount, lastPlayedRound)} :
         /\ pairingCalls' = pairingCalls + 1
         /\ attempt' = attempt + 1
         /\ IF pairing = Null
            THEN UNCHANGED <<best, stopped, scored>>
            ELSE \E cand \in {assignCourts(pairing[1], courtCount)} :
                 IF variant = "hardban"
                    /\ invalidSameFour(cand.courts, pastMatchupCount)
                 THEN UNCHANGED <<best, stopped, scored>>
                 ELSE \E score \in {scoreCandidateRound(variant, cand.courts,
                                       roundIndex, gamesCount, lastPlayedRound,
                                       levelMap, pastMatchupLastRound,
                                       pastMatchupCount, effectiveFixed)} :
                      /\ scored' = Recorded(scored, [score |-> score,
                                                     courts |-> cand.courts,
                                                     resting |-> cand.restingPlayers])
                      /\ IF Improves(score, best)
                         THEN /\ best' = Some([score |-> score,
                                               courts |-> cand.courts,
                                               resting |-> cand.restingPlayers,
                                               teams |-> pairing[1].teams])
                              /\ stopped' = (score = 0)
                         ELSE UNCHANGED <<best, stopped>>
    /\ UNCHANGED <<pageVars, inputVars, historyVars, rounds, error, pc,
                   roundIndex, generateCalls>>

\* one pass of the attempt loop
Attempt == AttemptOn(TrialOrders(players, gamesCount, lastPlayedRound))

\* rounds.push({...}) with a wrong, one-based round index
RoundViewOneBased(r, b) ==
    [roundIndex |-> r + 1, courts |-> b.courts, restingPlayers |-> b.resting,
     score |-> b.score]

\* the entry pushed to rounds for the committed candidate b of round r
RoundView(r, b) ==
    [roundIndex |-> r, courts |-> b.courts, restingPlayers |-> b.resting,
     score |-> b.score]

\* a commit that counts a game for every player of the roster, resting or not
CommitRoundCountsRoster ==
    /\ pc = "attempt"
    /\ roundIndex < matchCount
    /\ AttemptsOver
    /\ best # Null
    /\ LET b == best[1]
           played == PlayedThisRound(b.courts)
           keys == MatchupKeys(b.courts)
       IN /\ gamesCount' = [n \in DOMAIN gamesCount \cup played |->
                               GamesOf(gamesCount, n) + 1]
          /\ lastPlayedRound' = [n \in DOMAIN lastPlayedRound \cup played |->
                                    IF n \in played THEN roundIndex
                                    ELSE lastPlayedRound[n]]
          /\ prevPairsSet' = Some(currentPairs(b.courts))
          /\ pastMatchupLastRound' =
                 [k \in DOMAIN pastMatchupLastRound \cup keys |->
                     IF k \in keys THEN roundIndex ELSE pastMatchupLastRound[k]]
          /\ pastMatchupCount' =
                 [k \in DOMAIN pastMatchupCount \cup keys |->
                     CountOf(pastMatchupCount, k)
                     + Cardinality({i \in 1..Len(b.courts) :
                           matchupKey(b.courts[i].team1, b.courts[i].team2) = k})]
          /\ result' = Append(result, RoundView(roundIndex, b))
    /\ roundIndex' = roundIndex + 1
    /\ attempt' = 0
    /\ best' = Null
    /\ stopped' = FALSE
    /\ scored' = (IF scored = Null THEN Null ELSE Some(<<>>))
    /\ UNCHANGED <<pageVars, inputVars, rounds, error, pc, pairingCalls,
                   generateCalls>>

\* the best candidate of the round is committed
CommitRound ==
    /\ pc = "attempt"
    /\ roundIndex < matchCount
    /\ AttemptsOver
    /\ best # Null
    /\ LET b == best[1]
           played == PlayedThisRound(b.courts)
           keys == MatchupKeys(b.courts)
       IN /\ gamesCount' = [n \in DOMAIN gamesCount \cup played |->
                               IF n \in played THEN GamesOf(gamesCount, n) + 1
                               ELSE gamesCount[n]]
          /\ lastPlayedRound' = [n \in DOMAIN lastPlayedRound \cup played |->
                                    IF n \in played THEN roundIndex
                                    ELSE lastPlayedRound[n]]
          /\ prevPairsSet' = Some(currentPairs(b.courts))
          /\ pastMatchupLastRound' =
                 [k \in DOMAIN pastMatchupLastRound \cup keys |->
                     IF k \in keys THEN roundIndex ELSE pastMatchupLastRound[k]]
          /\ pastMatchupCount' =
                 [k \in DOMAIN pastMatchupCount \cup keys |->
                     CountOf(pastMatchupCount, k)
                     + Cardinality({i \in 1..Len(b.courts) :
                           matchupKey(b.courts[i].team1, b.courts[i].team2) = k})]
          /\ result' = Append(result, RoundView(roundIndex, b))
    /\ roundIndex' = roundIndex + 1
    /\ attempt' = 0
    /\ best' = Null
    /\ stopped' = FALSE
    /\ scored' = (IF scored = Null THEN Null ELSE Some(<<>>))
    /\ UNCHANGED <<pageVars, inputVars, rounds, error, pc, pairingCalls,
                   generateCalls>>

\* a failing round that hands back the rounds committed so far
FailRoundPartial ==
    /\ pc = "attempt"
    /\ roundIndex < matchCount
    /\ AttemptsOver
    /\ best = Null
    /\ error' = "NoError"
    /\ rounds' = Some(result)
    /\ pc' = "done"
    /\ UNCHANGED <<pageVars, inputVars, historyVars, roundIndex, attempt, best,
                   stopped, pairingCalls, generateCalls, scored>>

\* no candidate survived: generateRounds returns null
FailRound ==
    /\ pc = "attempt"
    /\ roundIndex < matchCount
    /\ AttemptsOver
    /\ best = Null
    /\ error' = "Infeasible"
    /\ rounds' = Null
    /\ pc' = "done"
    /\ UNCHANGED <<pageVars, inputVars, historyVars, roundIndex, attempt, best,
                   stopped, pairingCalls, generateCalls, scored>>

\* all rounds committed: generateRounds returns rounds
ReturnRounds ==
    /\ pc = "attempt"
    /\ roundIndex >= matchCount
    /\ error' = "NoError"
    /\ rounds' = Some(result)
    /\ pc' = "done"
    /\ UNCHANGED <<pageVars, inputVars, historyVars, roundIndex, attempt, best,
                   stopped, pairingCalls, generateCalls, scored>>

----------------------------------------------------------------------------
(* handleGenerate *)

\* smallest number of distinct participants accepted
MinParticipants(v) == IF v = "soft" THEN 2 ELSE 4

\* validation that lets a court count of 0 through
ValidationErrorZeroCourts(v, parts, cc) ==
    IF Len(Unique(parts)) < MinParticipants(v) THEN "TooFewParticipants"
    ELSE IF cc < 0 THEN "CourtCountTooSmall"
    ELSE "NoError"

\* the two guards at the top of handleGenerate
ValidationError(v, parts, cc) ==
    IF Len(Unique(parts)) < MinParticipants(v) THEN "TooFewParticipants"
    ELSE IF cc <= 0 THEN "CourtCountTooSmall"
    ELSE "NoError"

RECURSIVE EffectivePairsEither(_, _)
\* a filter that keeps a pair when one of its members participates
EffectivePairsEither(pairs, uniqueNames) ==
    IF pairs = <<>> THEN <<>>
    ELSE IF Head(pairs)[1] \in Range(uniqueNames) \/ Head(pairs)[2] \in Range(uniqueNames)
         THEN <<Head(pairs)>> \o EffectivePairsEither(Tail(pairs), uniqueNames)
         ELSE EffectivePairsEither(Tail(pairs), uniqueNames)

RECURSIVE EffectivePairs(_, _)
\* pairs.filter(([a, b]) => uniqueNames.includes(a) && uniqueNames.includes(b))
EffectivePairs(pairs, uniqueNames) ==
    IF pairs = <<>> THEN <<>>
    ELSE IF Head(pairs)[1] \in Range(uniqueNames) /\ Head(pairs)[2] \in Range(uniqueNames)
         THEN <<Head(pairs)>> \o EffectivePairs(Tail(pairs), uniqueNames)
         ELSE EffectivePairs(Tail(pairs), uniqueNames)

PlayersOf(uniqueNames, settings) ==
    [i \in 1..Len(uniqueNames) |->
        [name |-> uniqueNames[i],
         level |-> getSettings(settings, uniqueNames[i]).level,
         gender |-> getSettings(settings, uniqueNames[i]).gender]]

\* a request that fails validation: error set, rounds cleared, nothing else
HandleGenerateInvalid ==
    /\ pc \in {"idle", "done"}
    /\ ValidationError(variant, participants, courtCount) # "NoError"
    /\ error' = ValidationError(variant, participants, courtCount)
    /\ rounds' = Null
    /\ pc' = "done"
    /\ UNCHANGED <<pageVars, inputVars, historyVars, roundIndex, attempt, best,
                   stopped, pairingCalls, generateCalls, scored>>

\* a valid request: generateRounds is entered and its locals are initialised
HandleGenerateStart ==
    /\ pc = "idle"
    /\ ValidationError(variant, participants, courtCount) = "NoError"
    /\ LET uniqueNames == Unique(participants)
           ps == PlayersOf(uniqueNames, playerSettings)
           names == Range(uniqueNames)
       IN /\ players' = ps
          /\ effectiveFixed' = EffectivePairs(fixedPairs, uniqueNames)
          /\ effectiveForbidden' = EffectivePairs(forbiddenPairs, uniqueNames)
          /\ gamesCount' = [n \in names |-> 0]
          /\ lastPlayedRound' = [n \in names |-> -1]
    /\ prevPairsSet' = Null
    /\ pastMatchupLastRound' = <<>>
    /\ pastMatchupCount' = <<>>
    /\ result' = <<>>
    /\ roundIndex' = 0
    /\ attempt' = 0
    /\ best' = Null
    /\ stopped' = FALSE
    /\ generateCalls' = generateCalls + 1
    /\ pc' = "attempt"
    /\ UNCHANGED <<pageVars, rounds, error, pairingCalls, scored>>

----------------------------------------------------------------------------
(* Initial page state.  Every useState initialiser reads the stored state  *)
(* when there is one, so the page can start from any stored configuration. *)

Variants == {"soft", "hardban"}

PriorityModes == {"none", "level", "gender"}

NoSettings == <<>>

VariedSettings ==
    "A" :> [level |-> 1, gender |-> "M"] @@ "B" :> [level |-> 4, gender |-> "F"]
    @@ "C" :> [level |-> 8, gender |-> "M"] @@ "D" :> [level |-> 2, gender |-> "F"]

ABCD == <<"A", "B", "C", "D">>

ABCDE == <<"A", "B", "C", "D", "E">>

\* every pair of ABCD
AllPairsABCD ==
    <<<<"A", "B">>, <<"A", "C">>, <<"A", "D">>, <<"B", "C">>, <<"B", "D">>,
      <<"C", "D">>>>

\* leaves AD | BC as the only pairing of ABCD
OnlyADBC == <<<<"A", "B">>, <<"A", "C">>>>

\* pairs naming Z, who never participates
StaleForbidden == <<<<"C", "D">>, <<"A", "Z">>>>

StaleFixed == <<<<"B", "Z">>, <<"C", "D">>>>

Scenario(ps, st, fx, fb, pm) ==
    [participants |-> ps, playerSettings |-> st, fixedPairs |-> fx,
     forbiddenPairs |-> fb, priorityMode |-> pm]

\* rosters that fail validation in at least one variant
SmallScenarios ==
    {Scenario(ps, NoSettings, <<>>, <<>>, "none") :
        ps \in {<<>>, <<"A">>, <<"A", "A", "A", "A">>, <<"A", "B">>,
                <<"A", "B", "C">>}}
    \cup {Scenario(<<"B", "A", "C", "A">>, VariedSettings, <<<<"A", "B">>>>,
                   fb, "level") :
             fb \in {<<<<"A", "C">>>>,
                     <<<<"A", "B">>, <<"A", "C">>, <<"B", "C">>>>}}

\* four players: everybody plays every round
FourScenarios ==
    {Scenario(ABCD, NoSettings, <<>>, <<<<"A", "B">>>>, "none")}
    \cup {Scenario(ABCD, VariedSettings, <<<<"A", "B">>>>, fb, pm) :
             fb \in {<<<<"A", "B">>>>, OnlyADBC}, pm \in PriorityModes}
    \cup {Scenario(ABCD, VariedSettings, StaleFixed, StaleForbidden, pm) :
             pm \in {"none", "gender"}}
    \cup {Scenario(ABCD, st, <<>>, AllPairsABCD, pm) :
             st \in {NoSettings, VariedSettings}, pm \in PriorityModes}

\* five players: one rests every round
FiveScenarios ==
    {Scenario(ABCDE, VariedSettings, fx, <<<<"A", "C">>>>, pm) :
        fx \in {<<>>, <<<<"A", "B">>>>}, pm \in {"level", "gender"}}
    \cup {Scenario(ABCDE, NoSettings, <<<<"A", "B">>>>,
                   <<<<"A", "C">>, <<"D", "E">>, <<"B", "E">>>>, "none")}

Scenarios == SmallScenarios \cup FourScenarios \cup FiveScenarios

InitLocals ==
    /\ rounds = Null
    /\ error = "NoError"
    /\ pc = "idle"
    /\ players = <<>>
    /\ effectiveFixed = <<>>
    /\ effectiveForbidden = <<>>
    /\ result = <<>>
    /\ roundIndex = 0
    /\ attempt = 0
    /\ best = Null
    /\ stopped = FALSE
    /\ gamesCount = <<>>
    /\ lastPlayedRound = <<>>
    /\ prevPairsSet = Null
    /\ pastMatchupLastRound = <<>>
    /\ pastMatchupCount = <<>>
    /\ pairingCalls = 0
    /\ generateCalls = 0

\* court counts tried with a scenario: invalid ones, one court, and for the
\* scenarios with few candidates every count up to MaxCourts
CourtChoices(sc) ==
    {-1, 0, 1}
    \cup (IF sc.priorityMode = "gender" \/ Len(sc.participants) < 4
          THEN 1..MaxCourts ELSE {})

\* the page state of one of the scenarios, before any request
InitPage(scenarios) ==
    /\ variant \in Variants
    /\ \E sc \in scenarios :
         /\ participants = sc.participants
         /\ playerSettings = sc.playerSettings
         /\ fixedPairs = sc.fixedPairs
         /\ forbiddenPairs = sc.forbiddenPairs
         /\ priorityMode = sc.priorityMode
         /\ courtCount \in CourtChoices(sc)
    /\ matchCount \in 1..MaxRounds
    /\ InitLocals

InitFrom(scenarios) == InitPage(scenarios) /\ scored = Null

Init == InitFrom(Scenarios)

Next ==
    \/ HandleGenerateInvalid
    \/ HandleGenerateStart
    \/ Attempt
    \/ CommitRound
    \/ FailRound
    \/ ReturnRounds

Spec == Init /\ [][Next]_vars

----------------------------------------------------------------------------
(* A configured fixed pair among equal players, no forbidden pairs *)

FixedScenarios == {Scenario(ABCD, NoSettings, <<<<"A", "B">>>>, <<>>, "none")}

InitFixed == InitFrom(FixedScenarios)

SpecFixed == InitFixed /\ [][Next]_vars

----------------------------------------------------------------------------
(* The best-of-N loop with the history of scored candidates recorded *)

\* four players whose pairings differ in score, four players with one
\* pairing, and three players, whose candidates have no court and score 0
BestScenarios ==
    {Scenario(ABCD, VariedSettings, <<<<"A", "B">>>>, <<<<"A", "B">>>>, "level"),
     Scenario(ABCD, NoSettings, <<>>, OnlyADBC, "none"),
     Scenario(<<"A", "B", "C">>, NoSettings, <<>>, <<>>, "none")}

InitBest == InitPage(BestScenarios) /\ scored = Some(<<>>)

SpecBest == InitBest /\ [][Next]_vars

\* the attempt loop has a pass to make or a candidate to commit: the states
\* in which Attempt or CommitRound can be taken
InLoop ==
    pc = "attempt" /\ roundIndex < matchCount /\ (~AttemptsOver \/ best # Null)

\* generateRounds is sequential code that runs on without a pause: weak
\* fairness of its steps, written out for the steps of the loop with InLoop
\* as their enabling condition
LoopFairness ==
    /\ WF_vars(FailRound)
    /\ WF_vars(ReturnRounds)
    /\ ([]<>(~InLoop) \/ []<><<Attempt \/ CommitRound>>_vars)

SpecBestFair == InitBest /\ [][Next]_vars /\ LoopFairness

----------------------------------------------------------------------------
(* Requests without forbidden pairs, for two to five players.               *)

OpenScenarios ==
    {Scenario(ps, NoSettings, <<>>, <<>>, "none") :
        ps \in {<<"A", "B">>, <<"A", "B", "C">>, ABCD, ABCDE}}
    \cup {Scenario(ABCD, VariedSettings, <<<<"A", "B">>>>, <<>>, pm) :
             pm \in PriorityModes}
    \cup {Scenario(ABCDE, VariedSettings, <<<<"A", "B">>>>, <<>>, pm) :
             pm \in {"level", "gender"}}

InitOpen == InitFrom(OpenScenarios)

SpecOpen == InitOpen /\ [][Next]_vars

----------------------------------------------------------------------------
(* scoreCandidateRound of page.tsx on round states and candidates drawn    *)
(* from bounded sets: eight players, a late round, a matchup history of    *)
(* one or two courts, and candidates built from the rotations of the       *)
(* roster.  The scorer reads the counters and the matchup history          *)
(* independently, so they are drawn independently; result holds only the   *)
(* rounds committed from here on.                                          *)

\* the round that is being built
MaxRoundIndex == 19

ScoreRoster == SubSeq(NameOrder, 1, 8)

\* levels that make the teams of every odd rotation 8 + 8 against 1 + 1
ExtremeSettings ==
    "A" :> [level |-> 1, gender |-> "M"] @@ "B" :> [level |-> 8, gender |-> "F"]
    @@ "C" :> [level |-> 8, gender |-> "M"] @@ "D" :> [level |-> 1, gender |-> "F"]
    @@ "E" :> [level |-> 1, gender |-> "M"] @@ "F" :> [level |-> 8, gender |-> "F"]
    @@ "G" :> [level |-> 8, gender |-> "M"] @@ "H" :> [level |-> 1, gender |-> "F"]

\* six fixed pairs, four of them the teams of the unrotated roster
SixFixed ==
    <<<<"A", "B">>, <<"C", "D">>, <<"E", "F">>, <<"G", "H">>, <<"A", "C">>,
      <<"E", "G">>>>

KeyABCD == matchupKey(<<"A", "B">>, <<"C", "D">>)

KeyEFGH == matchupKey(<<"E", "F">>, <<"G", "H">>)

InitScore ==
    /\ variant = "soft"
    /\ participants = ScoreRoster
    /\ playerSettings \in {NoSettings, ExtremeSettings}
    /\ players = PlayersOf(ScoreRoster, playerSettings)
    /\ fixedPairs \in {<<>>, SixFixed}
    /\ forbiddenPairs = <<>>
    /\ effectiveFixed = fixedPairs
    /\ effectiveForbidden = <<>>
    /\ courtCount \in 1..MaxCourts
    /\ matchCount = MaxRoundIndex + 1
    /\ priorityMode = "none"
    /\ roundIndex = MaxRoundIndex
    /\ \E gap \in {1, 5, 6, 10, 11, MaxRoundIndex}, count \in 1..2, both \in BOOLEAN :
         LET last == roundIndex - gap
             keys == IF both THEN {KeyABCD, KeyEFGH} ELSE {KeyABCD}
             old == IF both THEN Range(ScoreRoster) ELSE {"A", "B", "C", "D"}
         IN /\ pastMatchupLastRound = [k \in keys |-> last]
            /\ pastMatchupCount = [k \in keys |-> count]
            /\ gamesCount = [n \in Range(ScoreRoster) |->
                                 IF n \in old THEN count ELSE roundIndex]
            /\ lastPlayedRound = [n \in Range(ScoreRoster) |->
                                      IF n \in old THEN last ELSE roundIndex - 1]
    /\ prevPairsSet = Some({})
    /\ rounds = Null
    /\ error = "NoError"
    /\ pc = "attempt"
    /\ result = <<>>
    /\ attempt = 0
    /\ best = Null
    /\ stopped = FALSE
    /\ pairingCalls = 0
    /\ generateCalls = 1
    /\ scored = Some(<<>>)

\* the body of the attempt loop after the pairing, on the candidate whose
\* teams are the consecutive pairs of a rotation of the roster
ScoreCandidate ==
    /\ pc = "attempt"
    /\ roundIndex < matchCount
    /\ ~AttemptsOver
    /\ \E k \in 0..(Len(players) - 1) :
       \E pairing \in {findRoundPairing(variant,
                            [i \in 1..Len(players) |->
                                players[((i - 1 + k) % Len(players)) + 1]],
                            Null, <<>>, "none", gamesCount, lastPlayedRound)} :
       \E cand \in {assignCourts(pairing[1], courtCount)} :
       \E score \in {scoreCandidateRound(variant, cand.courts, roundIndex,
                          gamesCount, lastPlayedRound, levelMapOf(players),
                          pastMatchupLastRound, pastMatchupCount,
                          effectiveFixed)} :
         /\ scored' = Recorded(scored, [score |-> score, courts |-> cand.courts,
                                        resting |-> cand.restingPlayers])
         /\ IF Improves(score, best)
            THEN /\ best' = Some([score |-> score, courts |-> cand.courts,
                                  resting |-> cand.restingPlayers,
                                  teams |-> pairing[1].teams])
                 /\ stopped' = (score = 0)
            ELSE UNCHANGED <<best, stopped>>
    /\ attempt' = attempt + 1
    /\ UNCHANGED <<pageVars, inputVars, historyVars, rounds, error, pc,
                   roundIndex, pairingCalls, generateCalls>>

NextScore == ScoreCandidate \/ CommitRound

SpecScore == InitScore /\ [][NextScore]_vars

----------------------------------------------------------------------------
(* part_000 with eight players on one court, two of them women, priority   *)
(* "gender".  The trial order of the first round is any of the 8! orders   *)
(* and every candidate of that round has the same score, so the first      *)
(* attempt decides the round; the run is followed from the state in which  *)
(* the first attempt drew the roster order and its candidate was           *)
(* committed.                                                              *)

FairRoster == SubSeq(NameOrder, 1, 8)

FairSettings ==
    "G" :> [level |-> 4, gender |-> "F"] @@ "H" :> [level |-> 4, gender |-> "F"]

\* the candidate of the first round whose trial order is the roster order,
\* without fixed or forbidden pairs
FirstRoundOf(v, mode, roster, settings, cc) ==
    LET ps == PlayersOf(roster, settings)
        zero == [n \in Range(roster) |-> 0]
        never == [n \in Range(roster) |-> -1]
        pairing == findRoundPairing(v, ps, Null, <<>>, mode, zero, never)
        cand == assignCourts(pairing[1], cc)
    IN [score |-> scoreCandidateRound(v, cand.courts, 0, zero, never,
                                      levelMapOf(ps), <<>>, <<>>, <<>>),
        courts |-> cand.courts, resting |-> cand.restingPlayers,
        teams |-> pairing[1].teams]

FairFirstRound == FirstRoundOf("hardban", "gender", FairRoster, FairSettings, 1)

InitFair ==
    /\ variant = "hardban"
    /\ participants = FairRoster
    /\ playerSettings = FairSettings
    /\ fixedPairs = <<>>
    /\ forbiddenPairs = <<>>
    /\ courtCount = 1
    /\ matchCount \in 2..(MaxRounds + 1)
    /\ priorityMode = "gender"
    /\ rounds = Null
    /\ error = "NoError"
    /\ pc = "attempt"
    /\ players = PlayersOf(FairRoster, FairSettings)
    /\ effectiveFixed = <<>>
    /\ effectiveForbidden = <<>>
    /\ result = <<RoundView(0, FairFirstRound)>>
    /\ roundIndex = 1
    /\ attempt = 0
    /\ best = Null
    /\ stopped = FALSE
    /\ gamesCount = [n \in Range(FairRoster) |->
                        IF n \in PlayedThisRound(FairFirstRound.courts)
                        THEN 1 ELSE 0]
    /\ lastPlayedRound = [n \in Range(FairRoster) |->
                             IF n \in PlayedThisRound(FairFirstRound.courts)
                             THEN 0 ELSE -1]
    /\ prevPairsSet = Some(currentPairs(FairFirstRound.courts))
    /\ pastMatchupLastRound = [k \in MatchupKeys(FairFirstRound.courts) |-> 0]
    /\ pastMatchupCount = [k \in MatchupKeys(FairFirstRound.courts) |-> 1]
    /\ pairingCalls = 1
    /\ generateCalls = 1
    /\ scored = Null

NextFair == Attempt \/ CommitRound \/ ReturnRounds

SpecFair == InitFair /\ [][NextFair]_vars

----------------------------------------------------------------------------
(* scoreCandidateRound of both files on the first round of eight players   *)
(* whose levels make the two courts of the unrotated roster differ by 0 to *)
(* 4 and by 0, 2 or 3; players without settings get the default level.     *)

\* level a for A, level e for E, no settings for the others
LevelSettings(a, e) ==
    "A" :> [level |-> a, gender |-> "M"] @@ "E" :> [level |-> e, gender |-> "F"]

InitLevel ==
    /\ variant \in Variants
    /\ participants = ScoreRoster
    /\ playerSettings \in {LevelSettings(a, e) : a \in 4..8, e \in {4, 6, 7}}
    /\ players = PlayersOf(ScoreRoster, playerSettings)
    /\ fixedPairs = <<>>
    /\ forbiddenPairs = <<>>
    /\ effectiveFixed = <<>>
    /\ effectiveForbidden = <<>>
    /\ courtCount \in 1..MaxCourts
    /\ matchCount = 1
    /\ priorityMode = "none"
    /\ gamesCount = [n \in Range(ScoreRoster) |-> 0]
    /\ lastPlayedRound = [n \in Range(ScoreRoster) |-> -1]
    /\ prevPairsSet = Null
    /\ pastMatchupLastRound = <<>>
    /\ pastMatchupCount = <<>>
    /\ result = <<>>
    /\ roundIndex = 0
    /\ attempt = 0
    /\ best = Null
    /\ stopped = FALSE
    /\ pairingCalls = 0
    /\ rounds = Null
    /\ error = "NoError"
    /\ pc = "attempt"
    /\ generateCalls = 1
    /\ scored = Some(<<>>)

SpecLevel == InitLevel /\ [][NextScore]_vars

----------------------------------------------------------------------------
(* generateRounds on six to eight players where the random comparison of   *)
(* the trial sort leaves the players that are equal in games played and    *)
(* last played round in the relative order of a rotation of the roster;    *)
(* the eight players are also taken with two women and mode "gender".      *)

\* ps with x put behind the players that do not compare higher than x
FairnessInsert(ps, x, gc, lp) ==
    LET k == Cardinality({i \in 1..Len(ps) :
                             FairnessCompare(ps[i], x, gc, lp) <= 0})
    IN SubSeq(ps, 1, k) \o <<x>> \o SubSeq(ps, k + 1, Len(ps))

RECURSIVE FairnessSort(_, _, _)
\* ps sorted by games played and last played round, equal players in the
\* order of ps
FairnessSort(ps, gc, lp) ==
    IF ps = <<>> THEN <<>>
    ELSE FairnessInsert(FairnessSort(SubSeq(ps, 1, Len(ps) - 1), gc, lp),
                        ps[Len(ps)], gc, lp)

\* the trial orders that keep equal players in the order of a rotation of ps
RotatedOrders(ps, gc, lp) ==
    {FairnessSort([i \in 1..Len(ps) |-> ps[((i - 1 + k) % Len(ps)) + 1]], gc, lp) :
        k \in 0..(Len(ps) - 1)}

AttemptRotated == AttemptOn(RotatedOrders(players, gamesCount, lastPlayedRound))

\* two fixed pairs among the second half of the roster
FixedEFGH == <<<<"E", "F">>, <<"G", "H">>>>

InitRotation ==
    /\ variant \in Variants
    /\ \E sc \in {<<6, NoSettings, "none">>, <<7, NoSettings, "none">>,
                  <<8, NoSettings, "none">>, <<8, FairSettings, "gender">>} :
         /\ participants = SubSeq(NameOrder, 1, sc[1])
         /\ playerSettings = sc[2]
         /\ priorityMode = sc[3]
    /\ players = PlayersOf(participants, playerSettings)
    /\ fixedPairs \in {<<>>, FixedEFGH, SixFixed}
    /\ forbiddenPairs = <<>>
    /\ effectiveFixed = EffectivePairs(fixedPairs, participants)
    /\ effectiveForbidden = <<>>
    /\ courtCount \in 1..MaxCourts
    /\ matchCount = MaxRounds
    /\ gamesCount = [n \in Range(participants) |-> 0]
    /\ lastPlayedRound = [n \in Range(participants) |-> -1]
    /\ prevPairsSet = Null
    /\ pastMatchupLastRound = <<>>
    /\ pastMatchupCount = <<>>
    /\ result = <<>>
    /\ roundIndex = 0
    /\ attempt = 0
    /\ best = Null
    /\ stopped = FALSE
    /\ pairingCalls = 0
    /\ rounds = Null
    /\ error = "NoError"
    /\ pc = "attempt"
    /\ generateCalls = 1
    /\ scored = Some(<<>>)

NextRotation == AttemptRotated \/ CommitRound \/ FailRound \/ ReturnRounds

SpecRotation == InitRotation /\ [][NextRotation]_vars

----------------------------------------------------------------------------
(* generateRounds of either variant for eight players on one court, with   *)
(* no pairs and settings, asked for two rounds or more, up to one more than *)
(* the bound; the trial orders of the attempts are the rotated ones.       *)

InitEight ==
    /\ variant \in Variants
    /\ participants = SubSeq(NameOrder, 1, 8)
    /\ playerSettings = NoSettings
    /\ priorityMode = "none"
    /\ players = PlayersOf(participants, playerSettings)
    /\ fixedPairs = <<>>
    /\ forbiddenPairs = <<>>
    /\ effectiveFixed = <<>>
    /\ effectiveForbidden = <<>>
    /\ courtCount = 1
    /\ matchCount \in 2..(MaxRounds + 1)
    /\ gamesCount = [n \in Range(participants) |-> 0]
    /\ lastPlayedRound = [n \in Range(participants) |-> -1]
    /\ prevPairsSet = Null
    /\ pastMatchupLastRound = <<>>
    /\ pastMatchupCount = <<>>
    /\ result = <<>>
    /\ roundIndex = 0
    /\ attempt = 0
    /\ best = Null
    /\ stopped = FALSE
    /\ pairingCalls = 0
    /\ rounds = Null
    /\ error = "NoError"
    /\ pc = "attempt"
    /\ generateCalls = 1
    /\ scored = Null

SpecEight == InitEight /\ [][NextRotation]_vars

----------------------------------------------------------------------------
(* Court assignment on larger rosters: one pairing search on a given order *)
(* followed by the court assignment, as in one attempt of generateRounds.  *)

\* the first n names, rotated by k, reversed when rev
OrderOf(n, k, rev) ==
    LET rot == [i \in 1..n |-> NameOrder[((i - 1 + k) % n) + 1]]
    IN IF rev THEN [i \in 1..n |-> rot[n + 1 - i]] ELSE rot

InitCourts ==
    /\ variant \in Variants
    /\ priorityMode \in PriorityModes
    /\ courtCount \in 1..MaxCourts
    /\ matchCount = 1
    /\ \E n \in 2..MaxCourtPlayers, k \in 0..(MaxCourtPlayers - 1), rev \in BOOLEAN :
         /\ k < n
         /\ participants = OrderOf(n, k, rev)
         /\ players = PlayersOf(OrderOf(n, k, rev), VariedSettings)
         /\ gamesCount = [x \in Range(OrderOf(n, k, rev)) |-> 0]
         /\ lastPlayedRound = [x \in Range(OrderOf(n, k, rev)) |-> -1]
    /\ playerSettings = VariedSettings
    /\ fixedPairs = <<>>
    /\ forbiddenPairs \in {<<>>, <<<<"A", "B">>, <<"C", "E">>>>}
    /\ effectiveFixed = <<>>
    /\ effectiveForbidden = forbiddenPairs
    /\ rounds = Null
    /\ error = "NoError"
    /\ pc = "order"
    /\ result = <<>>
    /\ roundIndex = 0
    /\ attempt = 0
    /\ best = Null
    /\ stopped = FALSE
    /\ prevPairsSet = Null
    /\ pastMatchupLastRound = <<>>
    /\ pastMatchupCount = <<>>
    /\ pairingCalls = 0
    /\ generateCalls = 1
    /\ scored = Null

\* the pairing and the court assignment of one attempt, on the order players
BuildCandidate ==
    /\ pc = "order"
    /\ \E pairing \in {findRoundPairing(variant, players, prevPairsSet,
                                        effectiveForbidden, priorityMode,
                                        gamesCount, lastPlayedRound)} :
         /\ pairing # Null
         /\ \E cand \in {assignCourts(pairing[1], courtCount)} :
              best' = Some([score |-> 0, courts |-> cand.courts,
                            resting |-> cand.restingPlayers,
                            teams |-> pairing[1].teams])
    /\ pairingCalls' = pairingCalls + 1
    /\ attempt' = attempt + 1
    /\ pc' = "built"
    /\ UNCHANGED <<pageVars, inputVars, historyVars, rounds, error, roundIndex,
                   stopped, generateCalls, scored>>

NextCourts == BuildCandidate

SpecCourts == InitCourts /\ [][NextCourts]_vars

----------------------------------------------------------------------------
(* findRoundPairing on six players: in the first round, on any order of    *)
(* the roster, and in the second round, after A-B against C-D was          *)
(* committed (the candidate of the roster order in every priority mode and *)
(* both variants), on any trial order generateRounds can pass.             *)

PairingRoster == SubSeq(NameOrder, 1, 6)

PairingSettings ==
    "A" :> [level |-> 1, gender |-> "M"] @@ "B" :> [level |-> 1, gender |-> "F"]
    @@ "C" :> [level |-> 4, gender |-> "M"] @@ "D" :> [level |-> 4, gender |-> "F"]
    @@ "E" :> [level |-> 2, gender |-> "M"] @@ "F" :> [level |-> 7, gender |-> "M"]

InitPairing ==
    /\ variant \in Variants
    /\ priorityMode \in PriorityModes
    /\ courtCount = 1
    /\ matchCount = 2
    /\ participants = PairingRoster
    /\ playerSettings = PairingSettings
    /\ fixedPairs = <<>>
    /\ forbiddenPairs \in {<<>>, <<<<"B", "E">>, <<"A", "F">>>>}
    /\ effectiveFixed = <<>>
    /\ effectiveForbidden = forbiddenPairs
    /\ \/ /\ roundIndex = 0
          /\ result = <<>>
          /\ gamesCount = [n \in Range(PairingRoster) |-> 0]
          /\ lastPlayedRound = [n \in Range(PairingRoster) |-> -1]
          /\ prevPairsSet = Null
          /\ pastMatchupLastRound = <<>>
          /\ pastMatchupCount = <<>>
          /\ pairingCalls = 0
       \/ /\ roundIndex = 1
          /\ forbiddenPairs = <<>>
          /\ \E first \in {FirstRoundOf(variant, priorityMode, PairingRoster,
                                         PairingSettings, 1)} :
               /\ result = <<RoundView(0, first)>>
               /\ gamesCount = [n \in Range(PairingRoster) |->
                                   IF n \in PlayedThisRound(first.courts)
                                   THEN 1 ELSE 0]
               /\ lastPlayedRound = [n \in Range(PairingRoster) |->
                                        IF n \in PlayedThisRound(first.courts)
                                        THEN 0 ELSE -1]
               /\ prevPairsSet = Some(currentPairs(first.courts))
               /\ pastMatchupLastRound = [k \in MatchupKeys(first.courts) |-> 0]
               /\ pastMatchupCount = [k \in MatchupKeys(first.courts) |-> 1]
          /\ pairingCalls = 1
    /\ players \in TrialOrders(PlayersOf(PairingRoster, PairingSettings),
                               gamesCount, lastPlayedRound)
    /\ rounds = Null
    /\ error = "NoError"
    /\ pc = "order"
    /\ attempt = 0
    /\ best = Null
    /\ stopped = FALSE
    /\ generateCalls = 1
    /\ scored = Null

SpecPairing == InitPairing /\ [][NextCourts]_vars

----------------------------------------------------------------------------
(* The pairing search of one attempt on four or six players, on every      *)
(* order the trial sort can produce, with forbidden sets that leave no     *)
(* pairing, or leave pairings that the first choices of the search miss.   *)

\* forbidden sets for A, B, C, D: nothing; one pair; A without a partner;
\* A left with B only
FourForbidden ==
    {<<>>, <<<<"A", "B">>>>,
     <<<<"A", "B">>, <<"A", "C">>, <<"A", "D">>>>,
     <<<<"A", "C">>, <<"A", "D">>>>}

\* forbidden sets for A to F: nothing; two pairs; A and B both left with C
\* only; D, E, F forbidden with each other
SixForbidden ==
    {<<>>, <<<<"B", "E">>, <<"A", "F">>>>,
     <<<<"A", "B">>, <<"A", "D">>, <<"A", "E">>, <<"A", "F">>,
       <<"B", "D">>, <<"B", "E">>, <<"B", "F">>>>,
     <<<<"D", "E">>, <<"D", "F">>, <<"E", "F">>>>}

\* the first round committed from the roster in its own order, Null when
\* the search finds no pairing
FirstRoundWith(v, mode, roster, settings, cc, forbidden) ==
    LET ps == PlayersOf(roster, settings)
        zero == [n \in Range(roster) |-> 0]
        never == [n \in Range(roster) |-> -1]
        pairing == findRoundPairing(v, ps, Null, forbidden, mode, zero, never)
        cand == assignCourts(pairing[1], cc)
    IN IF pairing = Null THEN Null
       ELSE Some([score |-> scoreCandidateRound(v, cand.courts, 0, zero, never,
                                                levelMapOf(ps), <<>>, <<>>, <<>>),
                  courts |-> cand.courts, resting |-> cand.restingPlayers,
                  teams |-> pairing[1].teams])

InitSearch ==
    /\ variant \in Variants
    /\ priorityMode \in PriorityModes
    /\ courtCount = 1
    /\ matchCount = 2
    /\ \E sc \in {<<4, f>> : f \in FourForbidden} \cup {<<6, f>> : f \in SixForbidden} :
         /\ participants = SubSeq(NameOrder, 1, sc[1])
         /\ forbiddenPairs = sc[2]
    /\ playerSettings = PairingSettings
    /\ fixedPairs = <<>>
    /\ effectiveFixed = <<>>
    /\ effectiveForbidden = forbiddenPairs
    /\ \/ /\ roundIndex = 0
          /\ result = <<>>
          /\ gamesCount = [n \in Range(participants) |-> 0]
          /\ lastPlayedRound = [n \in Range(participants) |-> -1]
          /\ prevPairsSet = Null
          /\ pastMatchupLastRound = <<>>
          /\ pastMatchupCount = <<>>
          /\ pairingCalls = 0
       \/ /\ roundIndex = 1
          /\ \E first \in {FirstRoundWith(variant, priorityMode, participants,
                                          PairingSettings, 1, forbiddenPairs)} :
               /\ first # Null
               /\ result = <<RoundView(0, first[1])>>
               /\ gamesCount = [n \in Range(participants) |->
                                   IF n \in PlayedThisRound(first[1].courts)
                                   THEN 1 ELSE 0]
               /\ lastPlayedRound = [n \in Range(participants) |->
                                        IF n \in PlayedThisRound(first[1].courts)
                                        THEN 0 ELSE -1]
               /\ prevPairsSet = Some(currentPairs(first[1].courts))
               /\ pastMatchupLastRound = [k \in MatchupKeys(first[1].courts) |-> 0]
               /\ pastMatchupCount = [k \in MatchupKeys(first[1].courts) |-> 1]
          /\ pairingCalls = 1
    /\ players \in TrialOrders(PlayersOf(participants, PairingSettings),
                               gamesCount, lastPlayedRound)
    /\ rounds = Null
    /\ error = "NoError"
    /\ pc = "order"
    /\ attempt = 0
    /\ best = Null
    /\ stopped = FALSE
    /\ generateCalls = 1
    /\ scored = Null

\* the pairing search of one attempt on the order players: the candidate is
\* built, or the attempt is skipped by continue
PairingStep ==
    /\ pc = "order"
    /\ \E pairing \in {findRoundPairing(variant, players, prevPairsSet,
                                        effectiveForbidden, priorityMode,
                                        gamesCount, lastPlayedRound)} :
         IF pairing = Null
         THEN /\ pc' = "nopairing"
              /\ UNCHANGED best
         ELSE /\ pc' = "built"
              /\ \E cand \in {assignCourts(pairing[1], courtCount)} :
                   best' = Some([score |-> 0, courts |-> cand.courts,
                                 resting |-> cand.restingPlayers,
                                 teams |-> pairing[1].teams])
    /\ pairingCalls' = pairingCalls + 1
    /\ attempt' = attempt + 1
    /\ UNCHANGED <<pageVars, inputVars, historyVars, rounds, error, roundIndex,
                   stopped, generateCalls, scored>>

NextSearch == PairingStep

SpecSearch == InitSearch /\ [][NextSearch]_vars

----------------------------------------------------------------------------
(* Properties *)

\* the schedule shown by the page, empty while rounds is null
Schedule == IF rounds = Null THEN <<>> ELSE rounds[1]

\* every name of a round: court teams in court order, then the resting list
RoundNames(rv) ==
    Flatten([i \in 1..Len(rv.courts) |-> rv.courts[i].team1 \o rv.courts[i].team2])
    \o rv.restingPlayers

NoDuplicates(seq) == \A i, j \in 1..Len(seq) : i # j => seq[i] # seq[j]

\* the teams on the courts of a round, as sets of two names
CourtTeams(rv) ==
    UNION {{Range(rv.courts[i].team1), Range(rv.courts[i].team2)} :
              i \in 1..Len(rv.courts)}

PairSets(pairs) == {{pairs[i][1], pairs[i][2]} : i \in 1..Len(pairs)}

DistinctNames == Range(participants)

\* the two error kinds the page reports for a rejected request
InvalidInput == {"TooFewParticipants", "CourtCountTooSmall"}

\* C1: in every round of a returned schedule no player occurs more than once
\* across the teams of all courts and the resting list.
C1_PlayerAtMostOncePerRound ==
    \A i \in 1..Len(Schedule) : NoDuplicates(RoundNames(Schedule[i]))

\* a returned schedule of two rounds with a court and a resting player
C1_Witness ==
    /\ Len(Schedule) >= 2
    /\ \A i \in 1..Len(Schedule) :
          Len(Schedule[i].courts) >= 1 /\ Len(Schedule[i].restingPlayers) >= 1

\* C2: in every round of a returned schedule no team on a court is a pair of
\* the forbidden set passed to generateRounds.
C2_NoForbiddenTeam ==
    \A i \in 1..Len(Schedule) :
        CourtTeams(Schedule[i]) \cap PairSets(effectiveForbidden) = {}

\* a returned schedule of two rounds with courts under a forbidden pair
C2_Witness ==
    /\ Len(Schedule) >= 2
    /\ effectiveForbidden # <<>>
    /\ priorityMode # "none"
    /\ \A i \in 1..Len(Schedule) : Len(Schedule[i].courts) >= 1

\* C3: for every round r > 0 of a returned schedule no team on a court in
\* round r is the same unordered pair as a team on a court in round r-1.
C3_NoPairOfPreviousRound ==
    \A i \in 2..Len(Schedule) :
        CourtTeams(Schedule[i]) \cap CourtTeams(Schedule[i - 1]) = {}

\* two consecutive rounds with courts sharing three of their four players
C3_Witness ==
    /\ Len(Schedule) >= 2
    /\ Len(Schedule[1].courts) >= 1
    /\ Len(Schedule[2].courts) >= 1
    /\ Cardinality(PlayedThisRound(Schedule[1].courts)
                   \cap PlayedThisRound(Schedule[2].courts)) >= 3

\* C4: a request with courtCount <= 0 or fewer than 2 distinct participants
\* always ends in the InvalidInput error with rounds null, and neither
\* generateRounds nor findRoundPairing is invoked; the outcome is fixed by the
\* input, so repeating the request gives it again.
C4_InvalidRequestRejected ==
    (courtCount <= 0 \/ Cardinality(DistinctNames) < 2) =>
        /\ generateCalls = 0
        /\ pairingCalls = 0
        /\ pc \in {"idle", "done"}
        /\ pc = "done" =>
              /\ rounds = Null
              /\ error = (IF Cardinality(DistinctNames) < 2
                             \/ (variant = "hardban" /\ Cardinality(DistinctNames) < 4)
                          THEN "TooFewParticipants" ELSE "CourtCountTooSmall")

\* a rejected request of four distinct participants and no court
C4_Witness ==
    /\ pc = "done"
    /\ courtCount = 0
    /\ Cardinality(DistinctNames) >= 4
    /\ error = "CourtCountTooSmall"
    /\ rounds = Null

\* a configured pair names somebody who does not participate
HasStalePair ==
    \E pr \in PairSets(fixedPairs) \cup PairSets(forbiddenPairs) :
        ~(pr \subseteq DistinctNames)

BothParticipate(pair) == pair[1] \in DistinctNames /\ pair[2] \in DistinctNames

\* C5 as stated: a request with a fixed or forbidden pair naming a
\* non-participant is rejected as InvalidInput before any search.
C5_StalePairRejected ==
    (HasStalePair /\ pc # "idle") =>
        /\ generateCalls = 0
        /\ pairingCalls = 0
        /\ pc = "done" => (error \in InvalidInput /\ rounds = Null)

\* C5 amended: a fixed or forbidden pair naming a non-participant is dropped
\* from the request; unless the participant count or courtCount is invalid,
\* generateRounds is called with exactly the configured pairs of which both
\* members participate, in their order, and no InvalidInput error is reported.
C5_StalePairDropped ==
    (HasStalePair /\ pc # "idle") =>
        IF courtCount <= 0
           \/ Cardinality(DistinctNames) < (IF variant = "soft" THEN 2 ELSE 4)
        THEN generateCalls = 0 /\ error \in InvalidInput /\ rounds = Null
        ELSE /\ generateCalls = 1
             /\ effectiveFixed = SelectSeq(fixedPairs, BothParticipate)
             /\ effectiveForbidden = SelectSeq(forbiddenPairs, BothParticipate)
             /\ error \notin InvalidInput

\* a schedule returned for a request with a pair naming a non-participant
C5_Witness ==
    /\ HasStalePair
    /\ pc = "done"
    /\ Len(Schedule) >= 1
    /\ Len(effectiveFixed) < Len(fixedPairs)
    /\ Len(effectiveForbidden) < Len(forbiddenPairs)

\* C6: generateRounds is all-or-nothing.  A round whose attempts are over
\* without a surviving candidate makes the whole generation fail (rounds null,
\* failure reported) whatever was committed before; a returned schedule has
\* matchCount rounds; the constraints are never relaxed while generating.
C6_AllOrNothing ==
    /\ [](pc = "done" /\ generateCalls > 0 =>
             \/ rounds = Null /\ error = "Infeasible"
             \/ rounds # Null /\ Len(rounds[1]) = matchCount /\ error = "NoError")
    /\ [][/\ (pc = "attempt" /\ roundIndex < matchCount /\ AttemptsOver
              /\ best = Null) =>
                 (pc' = "done" /\ rounds' = Null /\ error' = "Infeasible")
          /\ pc = "attempt" =>
                 /\ effectiveForbidden' = effectiveForbidden
                 /\ (pc' = "attempt" /\ roundIndex' = roundIndex) =>
                        prevPairsSet' = prevPairsSet]_vars

\* a generation that failed after committing a round
C6_Witness ==
    /\ pc = "done"
    /\ error = "Infeasible"
    /\ rounds = Null
    /\ Len(result) >= 1

\* C7: a returned schedule has exactly matchCount rounds and the round at
\* position i has roundIndex i, counting from 0.
C7_ScheduleLengthAndIndices ==
    rounds # Null =>
        /\ Len(rounds[1]) = matchCount
        /\ \A i \in 1..Len(rounds[1]) : rounds[1][i].roundIndex = i - 1

\* a returned schedule of at least two rounds
C7_Witness == rounds # Null /\ Len(rounds[1]) >= 2 /\ matchCount >= 2

Min(a, b) == IF a <= b THEN a ELSE b

\* C8: for N players and courtCount c >= 1 a round has k = min(c, (N div 2)
\* div 2) courts numbered 1..k, court i holds the (2i-1)-th and the 2i-th pair
\* of the pairing in the order findRoundPairing returned them, N - 4k players
\* rest, and a pair left without a court rests with both of its members.
C8_CourtAssignmentShape ==
    (pc = "built" /\ best # Null) =>
        LET N == Len(players)
            k == Min(courtCount, (N \div 2) \div 2)
            b == best[1]
        IN /\ Len(b.teams) = N \div 2
           /\ Len(b.courts) = k
           /\ \A i \in 1..k :
                 /\ b.courts[i].court = i
                 /\ b.courts[i].team1 = b.teams[2 * i - 1]
                 /\ b.courts[i].team2 = b.teams[2 * i]
           /\ Len(b.resting) = N - 4 * k
           /\ Range(b.resting) = Range(participants) \ PlayedThisRound(b.courts)
           /\ \A j \in (2 * k + 1)..Len(b.teams) : Range(b.teams[j]) \subseteq Range(b.resting)
           /\ (N = 8 /\ courtCount = 2) => (Len(b.courts) = 2 /\ b.resting = <<>>)
           /\ (N = 5 /\ courtCount = 1) => (Len(b.courts) = 1 /\ Len(b.resting) = 1)

\* eight players on one court: one court, two pairs and nobody else resting
C8_Witness ==
    /\ pc = "built"
    /\ best # Null
    /\ Len(players) = 8
    /\ courtCount = 1
    /\ Len(best[1].courts) = 1
    /\ Len(best[1].resting) = 4

\* every two distinct participants form a forbidden pair
AllPairsForbidden ==
    \A a, b \in DistinctNames : a # b => {a, b} \in PairSets(forbiddenPairs)

\* C9: when every possible pair among the players is forbidden and a round is
\* requested, generateRounds fails: no candidate is ever kept, no round is
\* committed, and the request ends with rounds null and the failure reported,
\* in every priority mode and for every trial order.
C9_AllPairsForbiddenFails ==
    (AllPairsForbidden /\ generateCalls > 0 /\ matchCount >= 1) =>
        /\ best = Null
        /\ result = <<>>
        /\ rounds = Null
        /\ pc = "done" => error = "Infeasible"

\* four players, all six pairs forbidden, generation failed after its attempts
C9_Witness ==
    /\ AllPairsForbidden
    /\ Cardinality(DistinctNames) = 4
    /\ pc = "done"
    /\ error = "Infeasible"
    /\ pairingCalls = MaxAttempts

\* the two names are on a court of the round, on the same team / anywhere
Teamed(rv, a, b) == {a, b} \in CourtTeams(rv)

BothOnCourt(rv, a, b) == {a, b} \subseteq PlayedThisRound(rv.courts)

\* C10: with a fixed pair, no forbidden pairs and equal levels, in every round
\* of the returned schedule in which both members are on a court they are on
\* the same team, also in consecutive rounds: stated here for a round that
\* follows a round in which the pair was teamed on a court.
C10_FixedPairTeamedInConsecutiveRounds ==
    \A i \in 2..Len(Schedule) : \A f \in 1..Len(effectiveFixed) :
        (/\ Teamed(Schedule[i - 1], effectiveFixed[f][1], effectiveFixed[f][2])
         /\ BothOnCourt(Schedule[i], effectiveFixed[f][1], effectiveFixed[f][2]))
            => Teamed(Schedule[i], effectiveFixed[f][1], effectiveFixed[f][2])

\* C11: in part_000 a candidate with a court whose four players already
\* shared a court in an earlier committed round is never kept, so no
\* four-player matchup key is on a court in two different rounds of a returned
\* schedule.
C11_HardBanNoRepeatedFour ==
    /\ [](variant = "hardban" =>
             \A i, j \in 1..Len(Schedule) :
                 i # j => MatchupKeys(Schedule[i].courts)
                          \cap MatchupKeys(Schedule[j].courts) = {})
    /\ [][(variant = "hardban" /\ best' # best /\ best' # Null) =>
              ~invalidSameFour(best'[1].courts, pastMatchupCount)]_vars

\* part_000, second round: an attempt found a pairing on the roster order but
\* its court repeats the four players of the first round and nothing was kept
C11_Witness ==
    /\ variant = "hardban"
    /\ pc = "attempt"
    /\ roundIndex = 1
    /\ attempt >= 1
    /\ best = Null
    /\ \E pairing \in {findRoundPairing(variant, players, prevPairsSet,
                                        effectiveForbidden, priorityMode,
                                        gamesCount, lastPlayedRound)} :
          /\ pairing # Null
          /\ invalidSameFour(assignCourts(pairing[1], courtCount).courts,
                             pastMatchupCount)

\* the first of the entries of list with the lowest score
FirstMin(list) ==
    list[CHOOSE k \in 1..Len(list) :
            /\ \A j \in 1..Len(list) : list[j].score >= list[k].score
            /\ \A j \in 1..(k - 1) : list[j].score > list[k].score]

\* C12: the candidate committed for a round is the earliest of the candidates
\* scored in the round's attempts that has the minimum score, with its courts,
\* resting list and score, and the recorded score is scoreCandidateRound of
\* the committed courts on the counters and histories before the commit.
C12_CommitsEarliestMinimum ==
    [][Len(result') = Len(result) + 1 =>
          LET rv == result'[Len(result')]
              list == scored[1]
          IN /\ list # <<>>
             /\ \A j \in 1..Len(list) : rv.score <= list[j].score
             /\ rv.courts = FirstMin(list).courts
             /\ rv.restingPlayers = FirstMin(list).resting
             /\ rv.score = FirstMin(list).score
             /\ rv.score = scoreCandidateRound(variant, rv.courts, roundIndex,
                               gamesCount, lastPlayedRound, levelMapOf(players),
                               pastMatchupLastRound, pastMatchupCount,
                               effectiveFixed)]_vars

\* a round about to be committed whose two scored candidates have the same
\* score, not 0, and different courts, the first one being the kept one
C12_Witness ==
    /\ pc = "attempt"
    /\ AttemptsOver
    /\ best # Null
    /\ scored # Null
    /\ Len(scored[1]) >= 2
    /\ scored[1][1].score = scored[1][2].score
    /\ scored[1][1].score > 0
    /\ scored[1][1].courts # scored[1][2].courts
    /\ best[1].courts = scored[1][1].courts

\* a court of the candidate has a matchup key that was played before
HasPlayedMatchup(courts, pmLast) ==
    \E i \in 1..Len(courts) :
        matchupKey(courts[i].team1, courts[i].team2) \in DOMAIN pmLast

\* C13: in page.tsx, for the same round state, a candidate with a court whose
\* matchup key was played before scores strictly higher than every candidate
\* without such a court; so a committed round has a court whose matchup was
\* played within the previous 5 rounds only if every candidate scored in that
\* round had a court with a matchup played before.
C13_RepeatedMatchupDominates ==
    /\ [](scored # Null =>
             \A i, j \in 1..Len(scored[1]) :
                 (/\ HasPlayedMatchup(scored[1][i].courts, pastMatchupLastRound)
                  /\ ~HasPlayedMatchup(scored[1][j].courts, pastMatchupLastRound))
                     => scored[1][i].score > scored[1][j].score)
    /\ [][Len(result') = Len(result) + 1 =>
              LET rv == result'[Len(result')]
              IN (\E i \in 1..Len(rv.courts) :
                     LET key == matchupKey(rv.courts[i].team1, rv.courts[i].team2)
                     IN /\ key \in DOMAIN pastMatchupLastRound
                        /\ roundIndex - pastMatchupLastRound[key] <= 5)
                 => \A j \in 1..Len(scored[1]) :
                        HasPlayedMatchup(scored[1][j].courts, pastMatchupLastRound)]_vars

\* extreme levels and six fixed pairs: a candidate repeating a matchup last
\* played more than ten rounds ago, with its fixed pairs teamed and its teams
\* balanced, was scored next to one without a repeated matchup whose teams
\* are 16 against 2
C13_Witness ==
    /\ scored # Null
    /\ Len(scored[1]) >= 2
    /\ playerSettings = ExtremeSettings
    /\ effectiveFixed = SixFixed
    /\ pastMatchupLastRound[KeyABCD] < roundIndex - 10
    /\ HasPlayedMatchup(scored[1][1].courts, pastMatchupLastRound)
    /\ ~HasPlayedMatchup(scored[1][2].courts, pastMatchupLastRound)
    /\ LevelTerm(variant, scored[1][1].courts, levelMapOf(players)) = 0
    /\ LevelTerm(variant, scored[1][2].courts, levelMapOf(players)) >= 1440

\* games of player n in the first k rounds of a schedule
GamesIn(sched, k, n) ==
    Cardinality({i \in 1..k : n \in PlayedThisRound(sched[i].courts)})

\* largest difference of the games of two players after the first k rounds
Spread(sched, k) ==
    LET games == {GamesIn(sched, k, players[i].name) : i \in 1..Len(players)}
    IN SetMax(games) - SetMin(games)

\* players on court in every round of the schedule, 0 when it is not the same
\* number in every round
OnCourt(sched) ==
    IF sched # <<>>
       /\ \A i \in 1..Len(sched) :
              Cardinality(PlayedThisRound(sched[i].courts))
              = Cardinality(PlayedThisRound(sched[1].courts))
    THEN Cardinality(PlayedThisRound(sched[1].courts)) ELSE 0

\* C14: in a returned schedule in which the number of players on court per
\* round divides the number of players, after every prefix of rounds the
\* games of any two players differ by at most 2, and by at most 1 when the
\* prefix ends a block of (players / players on court) rounds.
C14_FairnessBound ==
    (OnCourt(Schedule) > 0 /\ Len(players) % OnCourt(Schedule) = 0) =>
        \A k \in 1..Len(Schedule) :
            /\ Spread(Schedule, k) <= 2
            /\ k % (Len(players) \div OnCourt(Schedule)) = 0
                  => Spread(Schedule, k) <= 1

\* the rounds committed so far in which player n was on a court
RoundsPlayed(n) ==
    {i \in 1..Len(result) : n \in PlayedThisRound(result[i].courts)}

\* C15: gamesCount of every player is the number of committed rounds in which
\* the player was on a court and lastPlayedRound is the index of the latest
\* such round, -1 if there is none; a commit adds exactly 1 to gamesCount of
\* the players on the committed courts and leaves both counters of everybody
\* else as they were; an attempt changes neither counter.
C15_RunningCounters ==
    /\ [](pc # "idle" =>
             \A i \in 1..Len(players) :
                 LET n == players[i].name
                 IN /\ GamesOf(gamesCount, n) = Cardinality(RoundsPlayed(n))
                    /\ LastOf(lastPlayedRound, n) =
                           (IF RoundsPlayed(n) = {} THEN -1
                            ELSE SetMax(RoundsPlayed(n)) - 1))
    /\ [][pc = "attempt" =>
              IF Len(result') = Len(result) + 1
              THEN \A i \in 1..Len(players) :
                       LET n == players[i].name
                       IN IF n \in PlayedThisRound(result'[Len(result')].courts)
                          THEN /\ gamesCount'[n] = gamesCount[n] + 1
                               /\ lastPlayedRound'[n] = roundIndex
                          ELSE /\ gamesCount'[n] = gamesCount[n]
                               /\ lastPlayedRound'[n] = lastPlayedRound[n]
              ELSE /\ gamesCount' = gamesCount
                   /\ lastPlayedRound' = lastPlayedRound]_vars

\* two rounds committed: somebody played both, somebody only the first and
\* somebody only the second
C15_Witness ==
    /\ Len(result) = 2
    /\ \E a, b, c \in DOMAIN gamesCount :
          /\ gamesCount[a] = 2 /\ lastPlayedRound[a] = 1
          /\ gamesCount[b] = 1 /\ lastPlayedRound[b] = 0
          /\ gamesCount[c] = 1 /\ lastPlayedRound[c] = 1

\* the player of the order passed to findRoundPairing whose name is n
PlayerNamed(n) == players[CHOOSE i \in 1..Len(players) : players[i].name = n]

\* the teams returned by the call of findRoundPairing
TeamsBuilt == best[1].teams

\* remaining.slice(1) when the k-th team was formed, as a set of players
CandidatesAt(k) ==
    {players[i] : i \in {j \in 1..Len(players) :
        /\ \A t \in 1..(k - 1) : players[j].name \notin Range(TeamsBuilt[t])
        /\ players[j].name # TeamsBuilt[k][1]}}

ForbiddenKeys ==
    {pairKey(effectiveForbidden[i][1], effectiveForbidden[i][2]) :
        i \in 1..Len(effectiveForbidden)}

\* the pair of p1 and candidate c is neither forbidden nor of the previous round
Admissible(p1, c) ==
    ~PairRejected(pairKey(p1, c.name), ForbiddenKeys, prevPairsSet)

\* teams.pop() executions of the search on the order in players
SearchPops ==
    backtrack(variant, players, {}, <<>>, ForbiddenKeys, prevPairsSet,
              priorityMode, gamesCount, lastPlayedRound).pops

\* the candidates of the first player of the order, in the order of trial
TriedFirst ==
    sortCandidates(variant, priorityMode, Tail(players), players[1],
                   gamesCount, lastPlayedRound)

LevelDiff(c, p1) == Abs(c.level - PlayerNamed(p1).level)

OppositeGender(c, p1) == c.gender # PlayerNamed(p1).gender

\* lexicographic order on sequences of integers of the same length
RECURSIVE LexLeq(_, _)
LexLeq(x, y) ==
    IF x = <<>> THEN TRUE
    ELSE IF Head(x) # Head(y) THEN Head(x) < Head(y)
         ELSE LexLeq(Tail(x), Tail(y))

\* games played and last played round as page.tsx compares them; part_000 does
\* not compare them
FairnessKey(c) ==
    IF variant = "soft"
    THEN <<GamesOf(gamesCount, c.name), LastOf(lastPlayedRound, c.name)>>
    ELSE <<0, 0>>

\* C17 as stated: in mode "level", in both variants, the candidates of p1 are
\* tried in ascending level difference to p1, and when no candidate of p1 is
\* forbidden or a pair of the previous round and the search takes no pair
\* back, the partner of p1 has the smallest level difference to p1 of all
\* remaining players, whatever their games played and last played round.
C17_PartnerHasSmallestLevelDifference ==
    (pc = "built" /\ priorityMode = "level") =>
        /\ \A i, j \in 1..Len(TriedFirst) :
               i < j => LevelDiff(TriedFirst[i], players[1].name)
                        <= LevelDiff(TriedFirst[j], players[1].name)
        /\ \A k \in 1..Len(TeamsBuilt) :
               (/\ SearchPops = 0
                /\ \A c \in CandidatesAt(k) : Admissible(TeamsBuilt[k][1], c))
                   => \A c \in CandidatesAt(k) :
                          LevelDiff(PlayerNamed(TeamsBuilt[k][2]), TeamsBuilt[k][1])
                          <= LevelDiff(c, TeamsBuilt[k][1])

\* C17 amended: in mode "level" part_000 tries the candidates of p1 in
\* ascending level difference to p1; page.tsx tries them in ascending games
\* played, then ascending last played round, then ascending level difference.
\* When no candidate of p1 is forbidden or a pair of the previous round and
\* the search takes no pair back, the partner of p1 is least in that order
\* among all remaining players.
C17_PartnerLeastInTrialOrder ==
    (pc = "built" /\ priorityMode = "level") =>
        /\ \A i, j \in 1..Len(TriedFirst) :
               i < j =>
                   LexLeq(FairnessKey(TriedFirst[i])
                          \o <<LevelDiff(TriedFirst[i], players[1].name)>>,
                          FairnessKey(TriedFirst[j])
                          \o <<LevelDiff(TriedFirst[j], players[1].name)>>)
        /\ \A k \in 1..Len(TeamsBuilt) :
               (/\ SearchPops = 0
                /\ \A c \in CandidatesAt(k) : Admissible(TeamsBuilt[k][1], c))
                   => \A c \in CandidatesAt(k) :
                          LexLeq(FairnessKey(PlayerNamed(TeamsBuilt[k][2]))
                                 \o <<LevelDiff(PlayerNamed(TeamsBuilt[k][2]),
                                                TeamsBuilt[k][1])>>,
                                 FairnessKey(c)
                                 \o <<LevelDiff(c, TeamsBuilt[k][1])>>)

\* page.tsx, second round, mode "level": E, who has not played, is paired
\* with F, who has not played either and is 5 levels away, although A and B
\* are 1 level away; no pair of E was rejected and no pair was taken back
C17_Witness ==
    /\ pc = "built"
    /\ variant = "soft"
    /\ priorityMode = "level"
    /\ roundIndex = 1
    /\ SearchPops = 0
    /\ TeamsBuilt[1] = <<"E", "F">>
    /\ \A c \in CandidatesAt(1) : Admissible("E", c)

\* 0 for a candidate of the other gender than p1, 1 for one of the same gender
GenderRank(c, p1) == IF OppositeGender(c, p1) THEN 0 ELSE 1

\* C18 as stated: in mode "gender", in both variants, every candidate of the
\* other gender is tried before any candidate of the same gender as p1, in
\* ascending level difference inside each group, and when a remaining player
\* of the other gender is neither forbidden with p1 nor its partner of the
\* previous round and the search takes no pair back, the partner of p1 is of
\* the other gender.
C18_OppositeGenderFirst ==
    (pc = "built" /\ priorityMode = "gender") =>
        /\ \A i, j \in 1..Len(TriedFirst) :
               i < j =>
                   LexLeq(<<GenderRank(TriedFirst[i], players[1].name),
                            LevelDiff(TriedFirst[i], players[1].name)>>,
                          <<GenderRank(TriedFirst[j], players[1].name),
                            LevelDiff(TriedFirst[j], players[1].name)>>)
        /\ \A k \in 1..Len(TeamsBuilt) :
               (/\ SearchPops = 0
                /\ \E c \in CandidatesAt(k) :
                      /\ OppositeGender(c, TeamsBuilt[k][1])
                      /\ Admissible(TeamsBuilt[k][1], c))
                   => OppositeGender(PlayerNamed(TeamsBuilt[k][2]), TeamsBuilt[k][1])

\* C18 amended: in mode "gender" part_000 tries every candidate of the other
\* gender before any candidate of the same gender as p1, in ascending level
\* difference inside each group; page.tsx tries the candidates in ascending
\* games played, then ascending last played round, and only among candidates
\* equal in both the other gender first and then ascending level difference.
\* When the search takes no pair back and, among the remaining players that
\* are neither forbidden with p1 nor its partner of the previous round, one
\* that is least in games played and last played round (in part_000: any one)
\* is of the other gender, the partner of p1 is of the other gender.
C18_OppositeGenderFirstAmongLeastPlayed ==
    (pc = "built" /\ priorityMode = "gender") =>
        /\ \A i, j \in 1..Len(TriedFirst) :
               i < j =>
                   LexLeq(FairnessKey(TriedFirst[i])
                          \o <<GenderRank(TriedFirst[i], players[1].name),
                               LevelDiff(TriedFirst[i], players[1].name)>>,
                          FairnessKey(TriedFirst[j])
                          \o <<GenderRank(TriedFirst[j], players[1].name),
                               LevelDiff(TriedFirst[j], players[1].name)>>)
        /\ \A k \in 1..Len(TeamsBuilt) :
               (/\ SearchPops = 0
                /\ \E c \in CandidatesAt(k) :
                      /\ OppositeGender(c, TeamsBuilt[k][1])
                      /\ Admissible(TeamsBuilt[k][1], c)
                      /\ \A d \in CandidatesAt(k) :
                             Admissible(TeamsBuilt[k][1], d)
                                 => LexLeq(FairnessKey(c), FairnessKey(d)))
                   => OppositeGender(PlayerNamed(TeamsBuilt[k][2]), TeamsBuilt[k][1])

\* page.tsx, second round, mode "gender": E is paired with F, a man like E
\* who has not played either, although the women B and D remain and are not
\* rejected; the next team, of B, is of a woman and a man
C18_Witness ==
    /\ pc = "built"
    /\ variant = "soft"
    /\ priorityMode = "gender"
    /\ roundIndex = 1
    /\ SearchPops = 0
    /\ TeamsBuilt[1] = <<"E", "F">>
    /\ Admissible("E", PlayerNamed("B"))
    /\ Len(TeamsBuilt) >= 2
    /\ TeamsBuilt[2][1] = "B"
    /\ OppositeGender(PlayerNamed(TeamsBuilt[2][2]), "B")

\* the players on a court in the round committed last, none before round 0
PlayedPreviousRound ==
    IF result = <<>> THEN {} ELSE PlayedThisRound(result[Len(result)].courts)

\* C19: the consecutive-play term of the candidate kept for a round is 3 for
\* each of its on-court players who was on a court in the round committed
\* just before and nothing for any other player; for round 0 it is 0.
C19_ConsecutiveTermCountsPreviousRound ==
    (pc = "attempt" /\ best # Null) =>
        /\ ConsecutiveTerm(PlayedThisRound(best[1].courts), roundIndex,
                           lastPlayedRound)
           = 3 * Cardinality(PlayedThisRound(best[1].courts)
                             \cap PlayedPreviousRound)
        /\ roundIndex = 0 =>
               ConsecutiveTerm(PlayedThisRound(best[1].courts), roundIndex,
                               lastPlayedRound) = 0

\* |sum of the levels of team1 - sum of the levels of team2| of a court
CourtDiff(court) ==
    Abs(TeamLevel(court.team1, levelMapOf(players))
        - TeamLevel(court.team2, levelMapOf(players)))

\* the score of courts without the level-imbalance term
ScoreWithoutLevel(courts) ==
    ConsecutiveTerm(PlayedThisRound(courts), roundIndex, lastPlayedRound)
    + FixedTerm(courts, PlayedThisRound(courts), effectiveFixed)
    + RepeatTerm(variant, courts, roundIndex, pastMatchupLastRound,
                 pastMatchupCount)
    + FairnessTerm(variant, PlayedThisRound(courts), gamesCount,
                   levelMapOf(players))
    + BlockQuotaTerm(variant, PlayedThisRound(courts), roundIndex, gamesCount,
                     levelMapOf(players))

\* 0 up to a difference of 2, then 10 times the square of the excess over 2
PenaltyOverTwo(diff) == IF diff > 2 THEN 10 * (diff - 2) * (diff - 2) ELSE 0

\* 0 up to a difference of 1, then 10 times the square of the excess over 1
PenaltyOverOne(diff) == IF diff > 1 THEN 10 * (diff - 1) * (diff - 1) ELSE 0

\* C20 as stated: in both variants every scored candidate's score contains,
\* for each of its courts, 0 when the team level sums differ by at most 2
\* and 10 * (diff - 2)^2 when they differ by more, summed over the courts.
C20_LevelPenaltyOverTwo ==
    (pc = "attempt" /\ scored # Null) =>
        \A j \in 1..Len(scored[1]) :
            scored[1][j].score - ScoreWithoutLevel(scored[1][j].courts)
            = SumSeq([i \in 1..Len(scored[1][j].courts) |->
                         PenaltyOverTwo(CourtDiff(scored[1][j].courts[i]))])

\* C20 amended: in page.tsx a court contributes 0 when diff <= 2 and
\* 10 * (diff - 2)^2 when diff > 2; in part_000 it contributes 0 when
\* diff <= 1 and 10 * (diff - 1)^2 when diff >= 2; the courts are scored
\* independently and the penalties are summed.
C20_LevelPenaltyPerVariant ==
    (pc = "attempt" /\ scored # Null) =>
        \A j \in 1..Len(scored[1]) :
            scored[1][j].score - ScoreWithoutLevel(scored[1][j].courts)
            = SumSeq([i \in 1..Len(scored[1][j].courts) |->
                         IF variant = "soft"
                         THEN PenaltyOverTwo(CourtDiff(scored[1][j].courts[i]))
                         ELSE PenaltyOverOne(CourtDiff(scored[1][j].courts[i]))])

\* part_000 has scored a candidate of two courts whose teams differ by 2 and
\* by 3 in level: 10 + 40
C20_Witness ==
    /\ pc = "attempt"
    /\ variant = "hardban"
    /\ scored # Null
    /\ \E j \in 1..Len(scored[1]) :
          /\ Len(scored[1][j].courts) = 2
          /\ CourtDiff(scored[1][j].courts[1]) = 2
          /\ CourtDiff(scored[1][j].courts[2]) = 3
          /\ scored[1][j].score - ScoreWithoutLevel(scored[1][j].courts) = 50

\* the score of courts without the fixed-pair term
ScoreWithoutFixed(courts) ==
    ConsecutiveTerm(PlayedThisRound(courts), roundIndex, lastPlayedRound)
    + RepeatTerm(variant, courts, roundIndex, pastMatchupLastRound,
                 pastMatchupCount)
    + LevelTerm(variant, courts, levelMapOf(players))
    + FairnessTerm(variant, PlayedThisRound(courts), gamesCount,
                   levelMapOf(players))
    + BlockQuotaTerm(variant, PlayedThisRound(courts), roundIndex, gamesCount,
                     levelMapOf(players))

\* a and b form a team of one of the courts
SameTeam(courts, a, b) ==
    \E i \in 1..Len(courts) :
        {a, b} \subseteq Range(courts[i].team1)
        \/ {a, b} \subseteq Range(courts[i].team2)

\* -5 for a fixed pair in one team, 20 for one on court in two teams, 0 for
\* one with a resting member
FixedPairDue(courts, pair) ==
    IF SameTeam(courts, pair[1], pair[2]) THEN -5
    ELSE IF {pair[1], pair[2]} \subseteq PlayedThisRound(courts) THEN 20
    ELSE 0

\* the fixed-pair part of the j-th candidate scored in this round
FixedPart(j) == scored[1][j].score - ScoreWithoutFixed(scored[1][j].courts)

\* C21: the score of every scored candidate contains, for each fixed pair,
\* -5 when the two are on the same team, +20 when both are on court but not
\* on the same team, and 0 when one of them rests, summed over the pairs.
C21_FixedPairTerm ==
    (pc = "attempt" /\ scored # Null) =>
        \A j \in 1..Len(scored[1]) :
            FixedPart(j)
            = SumSeq([i \in 1..Len(effectiveFixed) |->
                         FixedPairDue(scored[1][j].courts, effectiveFixed[i])])

\* second round of eight players on one court with the fixed pairs E-F and
\* G-H: one scored candidate teams both pairs and scores below 0, another
\* one has both pairs on court and split
C21_Witness ==
    /\ pc = "attempt"
    /\ scored # Null
    /\ effectiveFixed = FixedEFGH
    /\ \E j, k \in 1..Len(scored[1]) :
          /\ FixedPart(j) = -10
          /\ scored[1][j].score < 0
          /\ FixedPart(k) = 40

\* the score of courts without the block-quota term
ScoreWithoutBlockQuota(courts) ==
    ConsecutiveTerm(PlayedThisRound(courts), roundIndex, lastPlayedRound)
    + FixedTerm(courts, PlayedThisRound(courts), effectiveFixed)
    + RepeatTerm(variant, courts, roundIndex, pastMatchupLastRound,
                 pastMatchupCount)
    + LevelTerm(variant, courts, levelMapOf(players))
    + FairnessTerm(variant, PlayedThisRound(courts), gamesCount,
                   levelMapOf(players))

\* the block-quota part of the j-th candidate scored in this round
BlockQuotaPart(j) ==
    scored[1][j].score - ScoreWithoutBlockQuota(scored[1][j].courts)

\* games of the player at position i if the candidate courts were committed
HypotheticalGames(courts, i) ==
    gamesCount[players[i].name]
    + (IF players[i].name \in PlayedThisRound(courts) THEN 1 ELSE 0)

\* 5000 for every game that a player lacks of required after the candidate
Shortfall(courts, required) ==
    5000 * SumSeq([i \in 1..Len(players) |->
                      IF required > HypotheticalGames(courts, i)
                      THEN required - HypotheticalGames(courts, i) ELSE 0])

\* the block-quota term the claim gives to a candidate with P on-court
\* players of T players
BlockQuotaDue(courts, P, T) ==
    IF P > 0 /\ T % P = 0 /\ roundIndex % (T \div P) = (T \div P) - 1
    THEN Shortfall(courts, (roundIndex \div (T \div P)) + 1)
    ELSE 0

\* C22: in part_000 the score of every scored candidate contains 5000 times
\* the summed shortfalls below floor(roundIndex / blockRounds) + 1 games,
\* counted with the candidate's players, when the on-court count P divides
\* the player count T and the round is the last of a block of T / P rounds,
\* and 0 at every other round and when P does not divide T.
C22_BlockQuotaTerm ==
    (pc = "attempt" /\ scored # Null /\ variant = "hardban") =>
        \A j \in 1..Len(scored[1]) :
            BlockQuotaPart(j)
            = BlockQuotaDue(scored[1][j].courts,
                            Cardinality(PlayedThisRound(scored[1][j].courts)),
                            Len(players))

\* second round of eight players on one court, the last of the first block:
\* a scored candidate leaves two players without a game
C22_Witness ==
    /\ pc = "attempt"
    /\ variant = "hardban"
    /\ scored # Null
    /\ roundIndex = 1
    /\ Len(players) = 8
    /\ \E j \in 1..Len(scored[1]) :
          /\ Cardinality(PlayedThisRound(scored[1][j].courts)) = 4
          /\ BlockQuotaPart(j) = 10000

\* C23: a generation makes at most MaxAttempts attempts per round, one
\* pairing search each, hence at most MaxAttempts * matchCount searches; no
\* attempt follows in a round once its best candidate has a score of 0; and
\* every generation ends, with a schedule or with null.
C23_GenerationTerminates ==
    /\ [](attempt <= MaxAttempts /\ pairingCalls <= MaxAttempts * matchCount)
    /\ [][/\ (pc = "attempt" /\ best # Null /\ best[1].score = 0)
              => pairingCalls' = pairingCalls
          /\ pairingCalls' # pairingCalls
              => pairingCalls' = pairingCalls + 1 /\ attempt' = attempt + 1]_vars
    /\ (pc = "attempt")
           ~> (pc = "done" /\ (rounds # Null \/ error = "Infeasible"))

\* a schedule of two rounds or more returned after every round has used all
\* its attempts
C23_Witness ==
    /\ pc = "done"
    /\ rounds # Null
    /\ Len(rounds[1]) >= 2
    /\ pairingCalls = MaxAttempts * matchCount

\* the four names of a court
FourOf(court) == Range(court.team1) \cup Range(court.team2)

\* the indices of the committed rounds with a court of exactly the names four
RoundsWith(four) ==
    {result[q].roundIndex : q \in {p \in 1..Len(result) :
        \E i \in 1..Len(result[p].courts) : FourOf(result[p].courts[i]) = four}}

\* the matchup keys of the courts of the committed rounds
CommittedKeys ==
    UNION {MatchupKeys(result[q].courts) : q \in 1..Len(result)}

\* C24: after any number of committed rounds the matchup count of the key of
\* a committed court is the number of committed rounds with a court of the
\* same four players, whatever their teams, and its last round the latest of
\* them; keys never played are in neither map; and a step that commits no
\* round changes neither map.
C24_MatchupHistory ==
    /\ [](/\ DOMAIN pastMatchupCount = CommittedKeys
          /\ DOMAIN pastMatchupLastRound = CommittedKeys
          /\ \A q \in 1..Len(result) : \A i \in 1..Len(result[q].courts) :
                LET court == result[q].courts[i]
                    key == matchupKey(court.team1, court.team2)
                IN /\ pastMatchupCount[key]
                      = Cardinality(RoundsWith(FourOf(court)))
                   /\ pastMatchupLastRound[key]
                      = SetMax(RoundsWith(FourOf(court))))
    /\ [][Len(result') = Len(result)
             => UNCHANGED <<pastMatchupCount, pastMatchupLastRound>>]_vars

\* the same four players have met in both of two committed rounds, in
\* different teams: their key counts 2 and its last round is 1
C24_Witness ==
    /\ Len(result) = 2
    /\ \E i \in 1..Len(result[1].courts), j \in 1..Len(result[2].courts) :
          /\ FourOf(result[1].courts[i]) = FourOf(result[2].courts[j])
          /\ result[1].courts[i].team1 # result[2].courts[j].team1
          /\ pastMatchupCount[matchupKey(result[1].courts[i].team1,
                                         result[1].courts[i].team2)] = 2
          /\ pastMatchupLastRound[matchupKey(result[1].courts[i].team1,
                                             result[1].courts[i].team2)] = 1

\* C25: every court of every committed round has a team1 and a team2 of
\* exactly two names each, and its four names are pairwise distinct.
C25_CourtsHaveTwoFullTeams ==
    \A q \in 1..Len(result) : \A i \in 1..Len(result[q].courts) :
        LET court == result[q].courts[i]
        IN /\ {"team1", "team2"} \subseteq DOMAIN court
           /\ Len(court.team1) = 2
           /\ Len(court.team2) = 2
           /\ Cardinality(FourOf(court)) = 4

\* seven players and two courts: three pairs and a player left over, so the
\* committed round has one court, and the third pair and the player rest
C25_Witness ==
    /\ Len(players) = 7
    /\ courtCount = 2
    /\ Len(result) >= 1
    /\ Len(result[1].courts) = 1
    /\ Len(result[1].restingPlayers) = 3

\* the pairs that the search may not form in this round
RejectedKeys ==
    ForbiddenKeys \cup (IF prevPairsSet = Null THEN {} ELSE prevPairsSet[1])

RECURSIVE MatchingExists(_, _)
\* the names S can be split into pairs none of which is in rejected
MatchingExists(S, rejected) ==
    IF S = {} THEN TRUE
    ELSE LET x == CHOOSE n \in S : TRUE
         IN \E y \in S \ {x} :
               /\ pairKey(x, y) \notin rejected
               /\ MatchingExists(S \ {x, y}, rejected)

\* C26: for an even number of players findRoundPairing fails exactly when
\* the players cannot be split into pairs that are neither forbidden nor of
\* the previous round; whether such a split exists depends on neither the
\* order of the players nor the priority mode, so neither does the outcome.
C26_SearchComplete ==
    (pc \in {"built", "nopairing"} /\ Len(players) % 2 = 0) =>
        ((pc = "nopairing")
            <=> ~MatchingExists(Range(participants), RejectedKeys))

\* the search fails on six players each of whom has a partner that is not
\* rejected
C26_Witness ==
    /\ pc = "nopairing"
    /\ Len(players) = 6
    /\ \A i \in 1..6 : \E j \in 1..6 :
          i # j /\ pairKey(players[i].name, players[j].name) \notin RejectedKeys

\* C27: in page.tsx a generation without forbidden pairs never returns
\* null: no round is left without a candidate and every generation that has
\* ended has returned a schedule.
C27_SoftNeverFailsWithoutForbidden ==
    (variant = "soft" /\ forbiddenPairs = <<>>) =>
        /\ error # "Infeasible"
        /\ (pc = "attempt" /\ roundIndex < matchCount /\ AttemptsOver)
               => best # Null
        /\ (pc = "done" /\ generateCalls > 0) => rounds # Null

\* page.tsx has returned two rounds for four players without forbidden
\* pairs: the teams of the second round are not those of the first
C27_Witness ==
    /\ variant = "soft"
    /\ forbiddenPairs = <<>>
    /\ Len(participants) = 4
    /\ pc = "done"
    /\ rounds # Null
    /\ Len(rounds[1]) >= 2
    /\ CourtTeams(rounds[1][1]) \cap CourtTeams(rounds[1][2]) = {}
    /\ Len(rounds[1][2].courts) = 1

\* some order that the trial sort can leave gives a pairing whose courts the
\* attempt keeps: step of the attempt loop that can set a best candidate
SomeOrderGivesCandidate ==
    \E o \in TrialOrders(players, gamesCount, lastPlayedRound) :
    \E pairing \in {findRoundPairing(variant, o, prevPairsSet,
                                     effectiveForbidden, priorityMode,
                                     gamesCount, lastPlayedRound)} :
        /\ pairing # Null
        /\ ~(variant = "hardban"
             /\ invalidSameFour(assignCourts(pairing[1], courtCount).courts,
                                pastMatchupCount))

\* C28: part_000, eight players, one court, no pairs, mode "none": a
\* schedule of three rounds can be generated, so when two rounds are
\* committed at least one resolution of the random comparisons gives the
\* third round a candidate, and a generation of three rounds that has ended
\* is not bound to have returned null.
C28_ThirdRoundCanBeGenerated ==
    /\ (variant = "hardban" /\ pc = "attempt" /\ roundIndex = 2
            /\ roundIndex < matchCount /\ attempt = 0)
           => SomeOrderGivesCandidate
    /\ (variant = "hardban" /\ pc = "done" /\ matchCount >= 3) => rounds # Null

\* whatever the random comparisons give, a third round has no candidate and
\* no more than two rounds are committed
C28_NoThirdRound ==
    variant = "hardban" =>
        /\ Len(result) <= 2
        /\ (pc = "attempt" /\ roundIndex = 2 /\ roundIndex < matchCount
                /\ attempt = 0)
               => ~SomeOrderGivesCandidate

\* the pair keys of the two teams of every court of a committed round
TeamKeysOf(rv) ==
    {pairKey(a, b) : <<a, b>> \in {ab \in Range(participants) \X Range(participants) :
        ab[1] # ab[2] /\ {ab[1], ab[2]} \in CourtTeams(rv)}}

\* C29: once a round is committed the previous-round pair set is exactly the
\* pair keys of the teams on the courts of the last committed round, two per
\* court; no pair of resting players is in it, and no pair of the round
\* before the last one: the set is replaced, not extended, so that those
\* pairs may be formed again.
C29_PrevPairsAreLastCourtTeams ==
    /\ result = <<>> => prevPairsSet = Null
    /\ result # <<>> =>
          /\ prevPairsSet # Null
          /\ prevPairsSet[1] = TeamKeysOf(result[Len(result)])
          /\ Cardinality(prevPairsSet[1]) = 2 * Len(result[Len(result)].courts)
          /\ \A a, b \in Range(result[Len(result)].restingPlayers) :
                 pairKey(a, b) \notin prevPairsSet[1]
          /\ Len(result) >= 2 =>
                 prevPairsSet[1] \cap TeamKeysOf(result[Len(result) - 1]) = {}

\* three rounds are committed; the second one left two formed pairs resting,
\* and the third one has a team of the first one again
C29_Witness ==
    /\ Len(result) = 3
    /\ Len(result[2].restingPlayers) >= 4
    /\ CourtTeams(result[3]) \cap CourtTeams(result[1]) # {}
    /\ prevPairsSet # Null
    /\ prevPairsSet[1] \cap TeamKeysOf(result[1]) # {}

\* the players with strictly fewer games than every other player: one or none
FewestGames ==
    {n \in DOMAIN gamesCount :
        \A m \in DOMAIN gamesCount \ {n} : gamesCount[n] < gamesCount[m]}

\* the names that the trial sort can leave at position 0: fewest games and,
\* among those, the oldest last round
FirstNames ==
    {n \in DOMAIN gamesCount :
        \A m \in DOMAIN gamesCount :
            \/ gamesCount[n] < gamesCount[m]
            \/ /\ gamesCount[n] = gamesCount[m]
               /\ LastOf(lastPlayedRound, n) <= LastOf(lastPlayedRound, m)}

\* C30: a candidate with a court has, as first member of team1 of court 1, a
\* player that the trial sort can put at position 0, so that this player
\* neither rests alone nor in a pair without a court; and a round committed
\* with a court has the player who had strictly fewer games than every other
\* player before the round in team1 of court 1.
C30_FewestGamesOnCourtOne ==
    /\ [](   (best # Null /\ best[1].courts # <<>>) =>
               /\ best[1].courts[1].court = 1
               /\ best[1].courts[1].team1[1] \in FirstNames
               /\ best[1].courts[1].team1[1] \notin Range(best[1].resting)
               /\ FewestGames \subseteq Range(best[1].courts[1].team1))
    /\ [][(Len(result') = Len(result) + 1 /\ result'[Len(result')].courts # <<>>) =>
              /\ result'[Len(result')].courts[1].court = 1
              /\ FewestGames \subseteq Range(result'[Len(result')].courts[1].team1)
              /\ FewestGames \cap Range(result'[Len(result')].restingPlayers) = {}]_vars

\* five players, a priority mode and forbidden pairs: the player left to
\* rest in round 0, member of a forbidden pair, is the first player of court
\* 1 of round 1, whose resting player has a game
C30_Witness ==
    /\ Len(participants) = 5
    /\ priorityMode # "none"
    /\ Len(result) = 2
    /\ Len(result[1].restingPlayers) = 1
    /\ result[2].courts # <<>>
    /\ result[2].courts[1].team1[1] = result[1].restingPlayers[1]
    /\ \E i \in 1..Len(effectiveForbidden) :
           result[1].restingPlayers[1] \in Range(effectiveForbidden[i])
    /\ gamesCount[result[2].restingPlayers[1]] = 1

====
